---- MODULE Spec2Model ----
(***************************************************************************)
(* A model of the reliable UDP transport of stunnel (src/src/ucp.rs):      *)
(* the packet codec, the per-peer stream engine (UcpStream), the client    *)
(* endpoint (UcpClient) and the server endpoint (UcpServer), connected by  *)
(* a datagram channel that may lose, duplicate and reorder.                *)
(*                                                                         *)
(* Each handler of the source is an operator on a stream record; a handler *)
(* that transmits works on a context [s |-> stream, out |-> datagrams].    *)
(* The wall clock (get_time) is the variable now, in milliseconds; one     *)
(* handler runs at one instant.  Application bytes are numbered 0, 1, 2,   *)
(* ... in the order they are passed to send, so the payload of a DATA      *)
(* packet is the interval of byte numbers [lo, lo + n).                    *)
(*                                                                         *)
(* The last part models the SOCKS5 adapter of the client binary            *)
(* (src/src/bin/stunnel_client.rs): the task run_tunnel_port that serves   *)
(* one accepted TCP connection through one tunnel port.  Its state is the  *)
(* variable port.                                                          *)
(***************************************************************************)
EXTENDS Integers, Sequences, FiniteSets, Bags, TLC

VARIABLES now, client, server, net, obs, port

vars == <<now, client, server, net, obs, port>>

-----------------------------------------------------------------------------
(* Program constants (src/src/ucp.rs, lines 14-28).                        *)

CMD_SYN == 128
CMD_SYN_ACK == 129
CMD_ACK == 130
CMD_DATA == 131
CMD_HEARTBEAT == 132
CMD_HEARTBEAT_ACK == 133
UCP_PACKET_META_SIZE == 29
DEFAULT_WINDOW == 512
DEFAULT_RTO == 100
HEARTBEAT_INTERVAL_MILLIS == 2500
UCP_STREAM_BROKEN_MILLIS == 20000
SKIP_RESEND_TIMES == 2
BUF_LEN == 1400
UPDATE_INTERVAL_MILLIS == 10

(* The u32 fields (seq, una, timestamp, rto, ...) are kept modulo U32 and   *)
(* compared by signed difference as in the source; the model checker's     *)
(* integers being 32-bit, the modulus of the model is Word, not 2^32.      *)
Word == 65536
U32 == Word
I32_MAX == (U32 \div 2) - 1

(* Addresses: the client's socket, the server's socket, a third party.     *)
ClientAddr == "client"
ServerAddr == "server"
OtherAddr == "other"

None == [state |-> "ABSENT"]

-----------------------------------------------------------------------------
(* 32-bit arithmetic.                                                      *)

Min(a, b) == IF a < b THEN a ELSE b

Add32(a, b) == (a + b) % U32

Sub32(a, b) == (a - b + U32) % U32

(* (a - b) as i32 *)
AsI32(x) == IF x > I32_MAX THEN x - U32 ELSE x

SeqDiff(a, b) == AsI32(Sub32(a, b))

-----------------------------------------------------------------------------
(* Sequence helpers (VecDeque::insert, VecDeque::remove, pop_front).       *)

InsertAt(q, pos, x) ==
    SubSeq(q, 1, pos) \o <<x>> \o SubSeq(q, pos + 1, Len(q))

RemoveAt(q, i) == SubSeq(q, 1, i - 1) \o SubSeq(q, i + 1, Len(q))

Front(q) == q[1]

Back(q) == q[Len(q)]

-----------------------------------------------------------------------------
(* The packet codec.                                                       *)

(* UcpPacket::new.  words are the u32 values written into the payload by   *)
(* payload_write_u32; lo and n are the application bytes written by        *)
(* payload_write_slice.                                                    *)
UcpPacket_new ==
    [size |-> 0, read_pos |-> 0, skip_times |-> 0, session_id |-> 0,
     timestamp |-> 0, window |-> 0, xmit |-> 0, una |-> 0, seq |-> 0,
     cmd |-> 0, words |-> <<>>, lo |-> 0, n |-> 0]

(* The field payload: the number of payload bytes.                         *)
payload(p) == 4 * Len(p.words) + p.n

remaining_load(p) == BUF_LEN - payload(p) - UCP_PACKET_META_SIZE

payload_write_u32(p, u) ==
    IF remaining_load(p) >= 4 THEN [p EXCEPT !.words = Append(@, u)] ELSE p

(* Appends the k bytes numbered from..from+k-1.                            *)
payload_write_slice(p, from, k) ==
    IF remaining_load(p) >= k
    THEN [p EXCEPT !.lo = IF p.n = 0 THEN from ELSE @, !.n = @ + k]
    ELSE p

payload_remaining(p) == p.size - p.read_pos

(* crc32::checksum_ieee over the bytes after the CRC field, abstracted to  *)
(* a checksum of the header fields and the payload.                        *)
checksum_ieee(d) ==
    (d.session_id + 3 * d.timestamp + 5 * d.window + 7 * d.xmit + 11 * d.una
       + 13 * d.seq + 17 * d.cmd + 19 * d.size + 23 * d.lo + 29 * d.n
       + 31 * Len(d.words)) % U32

(* pack: writes the header, sets size, computes the CRC.  The result is    *)
(* the packet with its size set; packed_buffer is the datagram.            *)
pack(p) == [p EXCEPT !.size = payload(p) + UCP_PACKET_META_SIZE]

packed_buffer(p, src, dst) ==
    LET d == [src |-> src, dst |-> dst, size |-> p.size, crc |-> 0,
              session_id |-> p.session_id, timestamp |-> p.timestamp,
              window |-> p.window, xmit |-> p.xmit, una |-> p.una,
              seq |-> p.seq, cmd |-> p.cmd, words |-> p.words,
              lo |-> p.lo, n |-> p.n]
    IN  [d EXCEPT !.crc = checksum_ieee(d)]

is_crc32_correct(d) == checksum_ieee(d) = d.crc

is_legal(d) == d.size >= UCP_PACKET_META_SIZE /\ is_crc32_correct(d)

(* parse: the decoded packet of a received datagram.                       *)
parsed(d) ==
    [size |-> d.size, read_pos |-> UCP_PACKET_META_SIZE, skip_times |-> 0,
     session_id |-> d.session_id, timestamp |-> d.timestamp,
     window |-> d.window, xmit |-> d.xmit, una |-> d.una, seq |-> d.seq,
     cmd |-> d.cmd, words |-> d.words, lo |-> d.lo, n |-> d.n]

parse(d) == is_legal(d) /\ d.cmd >= CMD_SYN /\ d.cmd <= CMD_HEARTBEAT_ACK

is_syn(p) == p.cmd = CMD_SYN

-----------------------------------------------------------------------------
(* The stream engine: UcpStream.                                           *)
(* local_addr stands for the cloned socket; id, created, nsent, rnext, rok, *)
(* hb_log and hooked are history fields: the identity of the stream        *)
(* object, its creation time, the number of bytes passed to send, the      *)
(* number of bytes returned by recv, whether those were bytes 0..rnext-1   *)
(* of the peer in order, the times at which it emitted HEARTBEAT, and the  *)
(* states in which the server's on_new_ucp hook was handed the stream.     *)

UcpStream_new(local_addr, remote_addr, id) ==
    [state |-> "NONE", local_addr |-> local_addr, remote_addr |-> remote_addr,
     initial_time |-> now, alive_time |-> now, heartbeat |-> now,
     send_queue |-> <<>>, recv_queue |-> <<>>, send_buffer |-> <<>>,
     ack_list |-> <<>>, local_window |-> DEFAULT_WINDOW,
     remote_window |-> DEFAULT_WINDOW, rto |-> DEFAULT_RTO,
     session_id |-> 0, seq |-> 0, una |-> 0,
     id |-> id, created |-> now, nsent |-> 0, rnext |-> 0, rok |-> TRUE,
     hb_log |-> <<>>, hooked |-> <<>>]

Ctx(s) == [s |-> s, out |-> <<>>]

is_send_buffer_overflow(s) == Len(s.send_buffer) >= s.remote_window

timestamp(s) == (now - s.initial_time) % U32

next_seq(s) == Add32(s.seq, 1)

new_packet_seq_kept(s, cmd) ==
    [s |-> s,
     p |-> [UcpPacket_new EXCEPT !.session_id = s.session_id,
                                 !.timestamp = timestamp(s),
                                 !.window = s.local_window,
                                 !.seq = next_seq(s),
                                 !.una = s.una,
                                 !.cmd = cmd]]

(* new_packet: the stream with seq advanced, and the packet.               *)
new_packet(s, cmd) ==
    [s |-> [s EXCEPT !.seq = next_seq(s)],
     p |-> [UcpPacket_new EXCEPT !.session_id = s.session_id,
                                 !.timestamp = timestamp(s),
                                 !.window = s.local_window,
                                 !.seq = next_seq(s),
                                 !.una = s.una,
                                 !.cmd = cmd]]

new_noseq_packet(s, cmd) ==
    [UcpPacket_new EXCEPT !.session_id = s.session_id,
                          !.timestamp = timestamp(s),
                          !.window = s.local_window,
                          !.una = s.una,
                          !.cmd = cmd]

send_packet(s, p) == [s EXCEPT !.send_buffer = Append(@, p)]

send_packet_directly(c, p) ==
    [c EXCEPT !.out =
        Append(@, packed_buffer(pack(p), c.s.local_addr, c.s.remote_addr))]

RECURSIVE make_packet_send(_, _, _)
make_packet_send(s, from, len) ==
    IF len <= 0 THEN s
    ELSE LET np == new_packet(s, CMD_DATA)
             size == Min(remaining_load(np.p), len)
         IN  make_packet_send(
                 send_packet(np.s, payload_write_slice(np.p, from, size)),
                 from + size, len - size)

(* send(buf), buf being the next len bytes of the application.             *)
send(s, len) ==
    LET hasBack == Len(s.send_buffer) > 0
        remain == IF hasBack
                  THEN Min(remaining_load(Back(s.send_buffer)), len) ELSE 0
        s1 == IF hasBack /\ remain > 0
              THEN [s EXCEPT !.send_buffer[Len(s.send_buffer)] =
                                 payload_write_slice(@, s.nsent, remain)]
              ELSE s
        s2 == IF remain < len
              THEN make_packet_send(s1, s.nsent + remain, len - remain)
              ELSE s1
    IN  [s2 EXCEPT !.nsent = @ + len]

recv_blocked_never(packet, una) == FALSE

(* recv stops at a packet whose seq is at or beyond una.                   *)
recv_blocked(packet, una) == SeqDiff(packet.seq, una) >= 0

recv_loop_one_packet(s, buflen, size, chunks) ==
    IF ~(size < buflen /\ Len(s.recv_queue) > 0)
    THEN [s |-> s, size |-> size, chunks |-> chunks]
    ELSE LET packet == Front(s.recv_queue)
         IN  IF recv_blocked(packet, s.una)
             THEN [s |-> s, size |-> size, chunks |-> chunks]
             ELSE LET k == Min(payload_remaining(packet), buflen - size)
                      off == packet.read_pos - UCP_PACKET_META_SIZE
                                 - 4 * Len(packet.words)
                      read == [packet EXCEPT !.read_pos = @ + k]
                      q == IF payload_remaining(read) = 0
                           THEN Tail(s.recv_queue)
                           ELSE [s.recv_queue EXCEPT ![1] = read]
                  IN  [s |-> [s EXCEPT !.recv_queue = q], size |-> size + k,
                       chunks |-> IF k > 0
                                  THEN Append(chunks,
                                           [lo |-> packet.lo + off, n |-> k])
                                  ELSE chunks]

(* The loop of recv: size bytes copied so far, as the chunks (lo, n).      *)
RECURSIVE recv_loop(_, _, _, _)
recv_loop(s, buflen, size, chunks) ==
    IF ~(size < buflen /\ Len(s.recv_queue) > 0)
    THEN [s |-> s, size |-> size, chunks |-> chunks]
    ELSE LET packet == Front(s.recv_queue)
         IN  IF recv_blocked(packet, s.una)
             THEN [s |-> s, size |-> size, chunks |-> chunks]
             ELSE LET k == Min(payload_remaining(packet), buflen - size)
                      off == packet.read_pos - UCP_PACKET_META_SIZE
                                 - 4 * Len(packet.words)
                      read == [packet EXCEPT !.read_pos = @ + k]
                      q == IF payload_remaining(read) = 0
                           THEN Tail(s.recv_queue)
                           ELSE [s.recv_queue EXCEPT ![1] = read]
                  IN  recv_loop([s EXCEPT !.recv_queue = q], buflen, size + k,
                          IF k > 0
                          THEN Append(chunks, [lo |-> packet.lo + off, n |-> k])
                          ELSE chunks)

(* Whether the chunks are the bytes numbered from, from + 1, ... in order. *)
RECURSIVE InOrder(_, _)
InOrder(chunks, from) ==
    \/ chunks = <<>>
    \/ /\ chunks[1].lo = from
       /\ InOrder(Tail(chunks), from + chunks[1].n)

(* recv(buf) with buf.len() = buflen: the stream afterwards and the size   *)
(* returned.                                                               *)
recv(s, buflen) ==
    LET r == recv_loop(s, buflen, 0, <<>>)
    IN  [s |-> [r.s EXCEPT !.rnext = @ + r.size,
                           !.rok = @ /\ InOrder(r.chunks, s.rnext)],
         size |-> r.size]

-----------------------------------------------------------------------------
(* The tick: UcpStream::update and its steps.                              *)

check_if_alive(s) == now - s.alive_time < UCP_STREAM_BROKEN_MILLIS

do_heartbeat_no_reset(c) ==
    IF now - c.s.heartbeat >= HEARTBEAT_INTERVAL_MILLIS
    THEN LET c1 == send_packet_directly(c,
                       new_noseq_packet(c.s, CMD_HEARTBEAT))
         IN  [c1 EXCEPT !.s.hb_log = Append(@, now)]
    ELSE c

(* UcpStream::do_heartbeat.                                                *)
do_heartbeat(c) ==
    IF now - c.s.heartbeat >= HEARTBEAT_INTERVAL_MILLIS
    THEN LET c1 == send_packet_directly(c,
                       new_noseq_packet(c.s, CMD_HEARTBEAT))
         IN  [c1 EXCEPT !.s.heartbeat = now,
                        !.s.hb_log = Append(@, now)]
    ELSE c

(* The loop of send_ack_list over the pairs not yet written: packet is the *)
(* ACK being filled.                                                       *)
RECURSIVE send_ack_loop(_, _, _)
send_ack_loop(c, packet, pairs) ==
    IF pairs = <<>> THEN send_packet_directly(c, packet)
    ELSE LET full == remaining_load(packet) < 8
             c1 == IF full THEN send_packet_directly(c, packet) ELSE c
             p1 == IF full THEN new_noseq_packet(c.s, CMD_ACK) ELSE packet
         IN  send_ack_loop(c1,
                 payload_write_u32(payload_write_u32(p1, pairs[1][1]),
                                   pairs[1][2]),
                 Tail(pairs))

send_ack_list(c) ==
    IF c.s.ack_list = <<>> THEN c
    ELSE LET c1 == send_ack_loop(c, new_noseq_packet(c.s, CMD_ACK),
                                 c.s.ack_list)
         IN  [c1 EXCEPT !.s.ack_list = <<>>]

resend_due_once(s, packet) ==
    /\ packet.xmit = 0
    /\ \/ Sub32(timestamp(s), packet.timestamp) >= s.rto
       \/ packet.skip_times >= SKIP_RESEND_TIMES

resend_due_timeout_only(s, packet) ==
    Sub32(timestamp(s), packet.timestamp) >= s.rto

(* Whether timeout_resend retransmits the in-flight packet.                *)
resend_due(s, packet) ==
    \/ Sub32(timestamp(s), packet.timestamp) >= s.rto
    \/ packet.skip_times >= SKIP_RESEND_TIMES

resent(s, packet) ==
    pack([packet EXCEPT !.skip_times = 0, !.window = s.local_window,
                        !.una = s.una, !.timestamp = timestamp(s),
                        !.xmit = Add32(@, 1)])

RECURSIVE resend_loop(_, _)
resend_loop(c, i) ==
    IF i > Len(c.s.send_queue) THEN c
    ELSE LET packet == c.s.send_queue[i]
         IN  IF resend_due(c.s, packet)
             THEN LET p1 == resent(c.s, packet)
                  IN  resend_loop(
                          [c EXCEPT !.s.send_queue[i] = p1,
                                    !.out = Append(@, packed_buffer(p1,
                                        c.s.local_addr, c.s.remote_addr))],
                          i + 1)
             ELSE resend_loop(c, i + 1)

timeout_resend(c) == resend_loop(c, 1)

may_promote_by_count(s) ==
    /\ Len(s.send_queue) < s.remote_window
    /\ Len(s.send_buffer) > 0

(* Whether send_pending_packets may promote the front of send_buffer.      *)
may_promote(s) ==
    /\ Len(s.send_queue) < s.remote_window
    /\ ~(/\ Len(s.send_queue) > 0
         /\ Len(s.send_buffer) > 0
         /\ Sub32(Front(s.send_buffer).seq, Front(s.send_queue).seq)
                >= s.remote_window)
    /\ Len(s.send_buffer) > 0

RECURSIVE send_pending_packets(_)
send_pending_packets(c) ==
    IF ~may_promote(c.s) THEN c
    ELSE LET packet == [Front(c.s.send_buffer) EXCEPT
                           !.window = c.s.local_window,
                           !.una = c.s.una,
                           !.timestamp = timestamp(c.s)]
             c1 == send_packet_directly(c, packet)
         IN  send_pending_packets(
                 [c1 EXCEPT !.s.send_buffer = Tail(@),
                            !.s.send_queue = Append(@, pack(packet))])

(* The application's on_update callback: it sends cb.n bytes, or reads     *)
(* into a buffer of cb.n bytes, or does neither, and returns cb.ret.       *)
on_update(s, cb) ==
    CASE cb.op = "send" -> send(s, cb.n)
      [] cb.op = "recv" -> recv(s, cb.n).s
      [] OTHER -> s

update_resend_first(s, cb) ==
    IF check_if_alive(s)
    THEN LET c == send_pending_packets(send_ack_list(timeout_resend(
                      do_heartbeat(Ctx(s)))))
         IN  [s |-> on_update(c.s, cb), out |-> c.out, alive |-> cb.ret,
              broken |-> FALSE]
    ELSE [s |-> s, out |-> <<>>, alive |-> FALSE, broken |-> TRUE]

(* update: the stream afterwards, what it transmitted, and the result.     *)
update(s, cb) ==
    IF check_if_alive(s)
    THEN LET c == send_pending_packets(timeout_resend(send_ack_list(
                      do_heartbeat(Ctx(s)))))
         IN  [s |-> on_update(c.s, cb), out |-> c.out, alive |-> cb.ret,
              broken |-> FALSE]
    ELSE [s |-> s, out |-> <<>>, alive |-> FALSE, broken |-> TRUE]

-----------------------------------------------------------------------------
(* The receive path.                                                       *)

RECURSIVE process_una(_, _)
process_una(s, una) ==
    IF Len(s.send_queue) > 0 /\ SeqDiff(Front(s.send_queue).seq, una) < 0
    THEN process_una([s EXCEPT !.send_queue = Tail(@)], una)
    ELSE s

(* The index of the first in-flight packet with this seq, 0 when none.     *)
ack_index(q, seq) ==
    IF \E i \in 1..Len(q) : q[i].seq = seq
    THEN CHOOSE i \in 1..Len(q) :
             q[i].seq = seq /\ \A j \in 1..(i - 1) : q[j].seq # seq
    ELSE 0

process_an_ack_skip_any_age(s, seq, ts) ==
    LET rtt == Sub32(timestamp(s), ts)
        k == ack_index(s.send_queue, seq)
        last == IF k = 0 THEN Len(s.send_queue) ELSE k - 1
        skipped == [i \in 1..Len(s.send_queue) |->
                       IF i <= last
                       THEN [s.send_queue[i] EXCEPT
                                !.skip_times = Add32(@, 1)]
                       ELSE s.send_queue[i]]
    IN  [s |-> [s EXCEPT !.rto = Add32(s.rto, rtt) \div 2,
                         !.send_queue = IF k = 0 THEN skipped
                                        ELSE RemoveAt(skipped, k)],
         found |-> k # 0]

(* process_an_ack: the stream afterwards and the value returned.           *)
process_an_ack(s, seq, ts) ==
    LET rtt == Sub32(timestamp(s), ts)
        k == ack_index(s.send_queue, seq)
        last == IF k = 0 THEN Len(s.send_queue) ELSE k - 1
        skipped == [i \in 1..Len(s.send_queue) |->
                       IF i <= last /\ s.send_queue[i].timestamp <= ts
                       THEN [s.send_queue[i] EXCEPT
                                !.skip_times = Add32(@, 1)]
                       ELSE s.send_queue[i]]
    IN  [s |-> [s EXCEPT !.rto = Add32(s.rto, rtt) \div 2,
                         !.send_queue = IF k = 0 THEN skipped
                                        ELSE RemoveAt(skipped, k)],
         found |-> k # 0]

(* payload_read_u32 at the read cursor: the i-th u32 of the payload.       *)
payload_word(packet, i) ==
    IF i <= Len(packet.words) THEN packet.words[i] ELSE 0

RECURSIVE process_ack_loop(_, _, _)
process_ack_loop(s, packet, i) ==
    IF 4 * (i - 1) >= packet.size - UCP_PACKET_META_SIZE THEN s
    ELSE process_ack_loop(
             process_an_ack(s, payload_word(packet, i),
                            payload_word(packet, i + 1)).s,
             packet, i + 2)

process_ack(s, packet) ==
    IF packet.cmd = CMD_ACK /\ (packet.size - UCP_PACKET_META_SIZE) % 8 = 0
    THEN process_ack_loop(s, packet, 1)
    ELSE s

RECURSIVE insert_pos_keep_equal(_, _, _)
insert_pos_keep_equal(q, seq, i) ==
    IF i > Len(q) THEN i
    ELSE IF SeqDiff(seq, q[i].seq) < 0 THEN i
    ELSE insert_pos_keep_equal(q, seq, i + 1)

RECURSIVE insert_pos_plain_order(_, _, _)
insert_pos_plain_order(q, seq, i) ==
    IF i > Len(q) THEN i
    ELSE IF seq = q[i].seq THEN 0
    ELSE IF seq < q[i].seq THEN i
    ELSE insert_pos_plain_order(q, seq, i + 1)

(* The position at which process_data inserts: 0 for a duplicate.          *)
RECURSIVE insert_pos(_, _, _)
insert_pos(q, seq, i) ==
    IF i > Len(q) THEN i
    ELSE LET seq_diff == SeqDiff(seq, q[i].seq)
         IN  IF seq_diff = 0 THEN 0
             ELSE IF seq_diff < 0 THEN i
             ELSE insert_pos(q, seq, i + 1)

RECURSIVE advance_una(_, _, _)
advance_una(q, una, i) ==
    IF i <= Len(q) /\ q[i].seq = una
    THEN advance_una(q, Add32(una, 1), i + 1)
    ELSE una

process_data_ack_new_only(s, packet) ==
    LET s1 == [s EXCEPT !.ack_list =
                   Append(@, <<packet.seq, packet.timestamp>>)]
        pos == insert_pos(s.recv_queue, packet.seq, 1)
        q == InsertAt(s.recv_queue, pos - 1, packet)
    IN  IF SeqDiff(packet.seq, s.una) < 0 THEN s
        ELSE IF pos = 0 THEN s
        ELSE [s1 EXCEPT !.recv_queue = q,
                        !.una = advance_una(q, s.una, pos)]

process_data_below_una_kept(s, packet) ==
    LET s1 == [s EXCEPT !.ack_list =
                   Append(@, <<packet.seq, packet.timestamp>>)]
        pos == insert_pos(s.recv_queue, packet.seq, 1)
        q == InsertAt(s.recv_queue, pos - 1, packet)
    IN  IF pos = 0 THEN s1
        ELSE [s1 EXCEPT !.recv_queue = q,
                        !.una = advance_una(q, s.una, pos)]

process_data(s, packet) ==
    LET s1 == [s EXCEPT !.ack_list =
                   Append(@, <<packet.seq, packet.timestamp>>)]
        pos == insert_pos(s.recv_queue, packet.seq, 1)
        q == InsertAt(s.recv_queue, pos - 1, packet)
    IN  IF SeqDiff(packet.seq, s.una) < 0 THEN s1
        ELSE IF pos = 0 THEN s1
        ELSE [s1 EXCEPT !.recv_queue = q,
                        !.una = advance_una(q, s.una, pos)]

process_syn_ack_una_off(c, packet) ==
    IF packet.cmd = CMD_SYN_ACK
           /\ packet.size - UCP_PACKET_META_SIZE = 8
    THEN LET ack == payload_write_u32(payload_write_u32(
                        new_noseq_packet(c.s, CMD_ACK), packet.seq),
                        packet.timestamp)
             c1 == send_packet_directly(c, ack)
             r == process_an_ack(c1.s, payload_word(packet, 1),
                                 payload_word(packet, 2))
         IN  IF c.s.state = "CONNECTING"
             THEN IF r.found
                  THEN [c1 EXCEPT !.s = [r.s EXCEPT
                                            !.state = "ESTABLISHED",
                                            !.una = packet.seq]]
                  ELSE [c1 EXCEPT !.s = r.s]
             ELSE c1
    ELSE c

process_syn_ack_ack_once(c, packet) ==
    IF packet.cmd = CMD_SYN_ACK
           /\ packet.size - UCP_PACKET_META_SIZE = 8
    THEN LET seq == payload_word(packet, 1)
             ts == payload_word(packet, 2)
             ack == payload_write_u32(payload_write_u32(
                        new_noseq_packet(c.s, CMD_ACK), packet.seq),
                        packet.timestamp)
             c1 == send_packet_directly(c, ack)
             r == process_an_ack(c1.s, seq, ts)
         IN  IF c.s.state = "CONNECTING"
             THEN IF r.found
                  THEN [c1 EXCEPT !.s = [r.s EXCEPT
                                            !.state = "ESTABLISHED",
                                            !.una = Add32(packet.seq, 1)]]
                  ELSE [c1 EXCEPT !.s = r.s]
             ELSE c
    ELSE c

process_syn_ack(c, packet) ==
    IF packet.cmd = CMD_SYN_ACK
           /\ packet.size - UCP_PACKET_META_SIZE = 8
    THEN LET seq == payload_word(packet, 1)
             ts == payload_word(packet, 2)
             ack == payload_write_u32(payload_write_u32(
                        new_noseq_packet(c.s, CMD_ACK), packet.seq),
                        packet.timestamp)
             c1 == send_packet_directly(c, ack)
             r == process_an_ack(c1.s, seq, ts)
         IN  IF c.s.state = "CONNECTING"
             THEN IF r.found
                  THEN [c1 EXCEPT !.s = [r.s EXCEPT
                                            !.state = "ESTABLISHED",
                                            !.una = Add32(packet.seq, 1)]]
                  ELSE [c1 EXCEPT !.s = r.s]
             ELSE c1
    ELSE c

process_heartbeat_silent(c) == c

(* UcpStream::process_heartbeat.                                           *)
process_heartbeat(c) ==
    send_packet_directly(c, new_noseq_packet(c.s, CMD_HEARTBEAT_ACK))

process_heartbeat_ack(s) == [s EXCEPT !.alive_time = now]

process_state_accepting(s, packet) ==
    IF packet.cmd = CMD_ACK /\ packet.size - UCP_PACKET_META_SIZE = 8
    THEN LET r == process_an_ack(s, payload_word(packet, 1),
                                 payload_word(packet, 2))
         IN  IF r.found THEN [r.s EXCEPT !.state = "ESTABLISHED"] ELSE r.s
    ELSE s

process_state_connecting(c, packet) == process_syn_ack(c, packet)

process_state_established_reaccept(c, packet) ==
    LET c1 == [c EXCEPT !.s = process_una(c.s, packet.una)]
    IN  CASE packet.cmd = CMD_ACK ->
                 [c1 EXCEPT !.s = process_ack(c1.s, packet)]
          [] packet.cmd = CMD_DATA ->
                 [c1 EXCEPT !.s = process_data(c1.s, packet)]
          [] packet.cmd = CMD_SYN_ACK -> process_syn_ack(c1, packet)
          [] packet.cmd = CMD_HEARTBEAT -> process_heartbeat(c1)
          [] packet.cmd = CMD_HEARTBEAT_ACK ->
                 [c1 EXCEPT !.s = process_heartbeat_ack(c1.s)]
          [] packet.cmd = CMD_SYN ->
                 [c1 EXCEPT !.s.una = Add32(packet.seq, 1)]
          [] OTHER -> c1

process_state_established(c, packet) ==
    LET c1 == [c EXCEPT !.s = process_una(c.s, packet.una)]
    IN  CASE packet.cmd = CMD_ACK ->
                 [c1 EXCEPT !.s = process_ack(c1.s, packet)]
          [] packet.cmd = CMD_DATA ->
                 [c1 EXCEPT !.s = process_data(c1.s, packet)]
          [] packet.cmd = CMD_SYN_ACK -> process_syn_ack(c1, packet)
          [] packet.cmd = CMD_HEARTBEAT -> process_heartbeat(c1)
          [] packet.cmd = CMD_HEARTBEAT_ACK ->
                 [c1 EXCEPT !.s = process_heartbeat_ack(c1.s)]
          [] OTHER -> c1

processing_refresh_first(c, packet) ==
    LET c1 == [c EXCEPT !.s.alive_time = now,
                        !.s.remote_window = packet.window]
    IN  IF c.s.session_id # packet.session_id THEN c1
        ELSE CASE c.s.state = "ACCEPTING" ->
                      [c1 EXCEPT !.s = process_state_accepting(c1.s, packet)]
               [] c.s.state = "CONNECTING" ->
                      process_state_connecting(c1, packet)
               [] c.s.state = "ESTABLISHED" ->
                      process_state_established(c1, packet)
               [] OTHER -> c1

(* UcpStream::processing.                                                  *)
processing(c, packet) ==
    IF c.s.session_id # packet.session_id THEN c
    ELSE LET c1 == [c EXCEPT !.s.alive_time = now,
                             !.s.remote_window = packet.window]
         IN  CASE c.s.state = "ACCEPTING" ->
                      [c1 EXCEPT !.s = process_state_accepting(c1.s, packet)]
               [] c.s.state = "CONNECTING" ->
                      process_state_connecting(c1, packet)
               [] c.s.state = "ESTABLISHED" ->
                      process_state_established(c1, packet)
               [] OTHER -> c1

connecting(s, session_id) ==
    LET s1 == [s EXCEPT !.state = "CONNECTING", !.session_id = session_id]
        np == new_packet(s1, CMD_SYN)
    IN  send_packet(np.s, np.p)

accepting(s, packet) ==
    LET s1 == [s EXCEPT !.state = "ACCEPTING",
                        !.session_id = packet.session_id,
                        !.remote_window = packet.window,
                        !.una = Add32(packet.seq, 1)]
        np == new_packet(s1, CMD_SYN_ACK)
    IN  send_packet(np.s,
            payload_write_u32(payload_write_u32(np.p, packet.seq),
                              packet.timestamp))

process_packet_any_syn(c, packet, remote_addr) ==
    IF c.s.remote_addr # remote_addr THEN c
    ELSE IF is_syn(packet) THEN [c EXCEPT !.s = accepting(c.s, packet)]
    ELSE IF c.s.state = "NONE" THEN c
    ELSE processing(c, packet)

(* UcpStream::process_packet.                                              *)
process_packet(c, packet, remote_addr) ==
    IF c.s.remote_addr # remote_addr THEN c
    ELSE IF c.s.state = "NONE"
         THEN IF is_syn(packet)
              THEN [c EXCEPT !.s = accepting(c.s, packet)]
              ELSE c
         ELSE processing(c, packet)

-----------------------------------------------------------------------------
(* The endpoints and the channel.                                          *)

(* The remote addresses the server's table may hold.                       *)
Peers == {ClientAddr, OtherAddr}

NoCallback == [op |-> "none", n |-> 0, ret |-> TRUE]

(* send_to: the datagrams of out are put on the channel.  The channel is   *)
(* the set of the datagrams sent so far: one of them may be delivered any  *)
(* number of times (duplication), in any order (reordering), or never      *)
(* (loss).                                                                 *)
Transmit(n, out) == n \cup {out[i] : i \in 1..Len(out)}

(* UcpClient::connect with session_id the random draw.                     *)
UcpClient_connect(session_id) ==
    [ucp |-> connecting(UcpStream_new(ClientAddr, ServerAddr, 0), session_id),
     update_time |-> now, running |-> TRUE]

(* UcpServer::listen.                                                      *)
UcpServer_listen ==
    [ucp_map |-> [a \in Peers |-> None], update_time |-> now]

(* UcpClient::update: the client afterwards and what it transmitted.       *)
UcpClient_update(cl, cb) ==
    IF now - cl.update_time < UPDATE_INTERVAL_MILLIS
    THEN [cl |-> cl, out |-> <<>>, broken |-> <<>>]
    ELSE LET r == update(cl.ucp, cb)
         IN  [cl |-> [cl EXCEPT !.update_time = now, !.ucp = r.s,
                                !.running = r.alive],
              out |-> r.out,
              broken |-> IF r.broken THEN <<cl.ucp.id>> ELSE <<>>]

(* UcpClient::process_packet.                                              *)
UcpClient_process_packet(cl, d) ==
    IF ~parse(d) THEN [cl |-> cl, out |-> <<>>]
    ELSE LET c == process_packet(Ctx(cl.ucp), parsed(d), d.src)
         IN  [cl |-> [cl EXCEPT !.ucp = c.s], out |-> c.out]

(* The loop of UcpServer::update over the streams of the table still to be *)
(* visited.                                                                *)
RECURSIVE server_update_loop(_, _, _)
server_update_loop(r, todo, cbs) ==
    IF todo = {} THEN r
    ELSE LET a == CHOOSE x \in todo : TRUE
             u == update(r.sv.ucp_map[a], cbs[a])
         IN  server_update_loop(
                 [sv |-> [r.sv EXCEPT !.ucp_map[a] = u.s],
                  out |-> r.out \o u.out,
                  broken_ucp |-> IF u.alive THEN r.broken_ucp
                                 ELSE r.broken_ucp \cup {a},
                  broken |-> IF u.broken
                             THEN Append(r.broken, r.sv.ucp_map[a].id)
                             ELSE r.broken],
                 todo \ {a}, cbs)

remove_broken_keep(ucp_map, broken_ucp) == ucp_map

(* The table without the streams of broken_ucp.                            *)
remove_broken(ucp_map, broken_ucp) ==
    [a \in Peers |-> IF a \in broken_ucp THEN None ELSE ucp_map[a]]

(* UcpServer::update.                                                      *)
UcpServer_update(sv, cbs) ==
    IF now - sv.update_time < UPDATE_INTERVAL_MILLIS
    THEN [sv |-> sv, out |-> <<>>, broken |-> <<>>]
    ELSE LET r == server_update_loop(
                      [sv |-> sv, out |-> <<>>, broken_ucp |-> {},
                       broken |-> <<>>],
                      {a \in Peers : sv.ucp_map[a] # None}, cbs)
         IN  [sv |-> [r.sv EXCEPT
                         !.ucp_map = remove_broken(@, r.broken_ucp),
                         !.update_time = now],
              out |-> r.out, broken |-> r.broken]

(* The on_new_ucp hook of the application, which installs the callbacks of *)
(* the stream it is handed.                                                *)
on_new_ucp(ucp) == [ucp EXCEPT !.hooked = Append(@, ucp.state)]

(* UcpServer::new_ucp_stream.                                              *)
new_ucp_stream(sv, packet, remote_addr, id) ==
    LET ucp == on_new_ucp(UcpStream_new(ServerAddr, remote_addr, id))
        c == process_packet(Ctx(ucp), packet, remote_addr)
    IN  [sv |-> [sv EXCEPT !.ucp_map[remote_addr] = c.s], out |-> c.out,
         created |-> 1]

UcpServer_process_packet_any_cmd(sv, d, id) ==
    IF ~parse(d) THEN [sv |-> sv, out |-> <<>>, created |-> 0]
    ELSE IF sv.ucp_map[d.src] # None
    THEN LET c == process_packet(Ctx(sv.ucp_map[d.src]), parsed(d), d.src)
         IN  [sv |-> [sv EXCEPT !.ucp_map[d.src] = c.s], out |-> c.out,
              created |-> 0]
    ELSE new_ucp_stream(sv, parsed(d), d.src, id)

(* UcpServer::process_packet.                                              *)
UcpServer_process_packet(sv, d, id) ==
    IF ~parse(d) THEN [sv |-> sv, out |-> <<>>, created |-> 0]
    ELSE IF sv.ucp_map[d.src] # None
    THEN LET c == process_packet(Ctx(sv.ucp_map[d.src]), parsed(d), d.src)
         IN  [sv |-> [sv EXCEPT !.ucp_map[d.src] = c.s], out |-> c.out,
              created |-> 0]
    ELSE IF is_syn(parsed(d))
    THEN new_ucp_stream(sv, parsed(d), d.src, id)
    ELSE [sv |-> sv, out |-> <<>>, created |-> 0]

-----------------------------------------------------------------------------
(* Bounds of the model.                                                    *)

(* The channel delivers at most MaxDeliver datagrams in all.               *)
MaxDeliver == 8
(* The clock stops after MaxSteps steps of Step ms.                        *)
MaxSteps == 2
(* Each stream is passed at most MaxBytes bytes to send.                   *)
MaxBytes == 1372

(* The random draws of session_id.                                         *)
SessionIds == {7}

Step == 100

(* What on_update does in a tick: the client's application sends, the      *)
(* server's application reads.                                             *)
ClientCallbacks ==
    {NoCallback}
      \cup {[op |-> "send", n |-> k, ret |-> TRUE] : k \in {MaxBytes}}

ServerCallbacks ==
    {NoCallback}
      \cup {[op |-> "recv", n |-> k, ret |-> TRUE] : k \in {1, BUF_LEN}}

-----------------------------------------------------------------------------
(* The state machine.  obs.broken lists the streams on_broken was invoked  *)
(* for; obs.streams counts the streams the server created; obs.delivered   *)
(* counts the datagrams recv_from has returned, at most obs.budget; in the *)
(* specifications that set obs.watch, obs.last is the datagram recv_from   *)
(* returned in the step just taken, None after any other step;             *)
(* obs.advanced counts the steps of the clock; obs.got holds the SYN,      *)
(* SYN_ACK and DATA packets the endpoints have taken in.                   *)

(* The SOCKS5 adapter is not part of these specifications.                 *)
NoPort == [pc |-> "absent"]

Init ==
    /\ port = NoPort
    /\ now = 0
    /\ \E sid \in SessionIds : client = UcpClient_connect(sid)
    /\ server = UcpServer_listen
    /\ net = {}
    /\ obs = [broken |-> <<>>, streams |-> 0, delivered |-> 0,
              budget |-> MaxDeliver, last |-> None, watch |-> FALSE,
              advanced |-> 0, got |-> {}]

(* What the endpoint whose stream for the sender of d is s (None when it   *)
(* has none) takes in when recv_from returns d: the SYN that accepting is  *)
(* given, the SYN_ACK that process_syn_ack is given, the DATA packet that  *)
(* process_data inserts into recv_queue.                                   *)
Taken(s, d) ==
    LET takes ==
            /\ parse(d)
            /\ IF s = None THEN d.dst = ServerAddr /\ is_syn(parsed(d))
               ELSE /\ d.src = s.remote_addr
                    /\ d.session_id = s.session_id
                    /\ \/ /\ d.cmd = CMD_SYN_ACK
                          /\ d.size - UCP_PACKET_META_SIZE = 8
                          /\ s.state \in {"CONNECTING", "ESTABLISHED"}
                       \/ /\ d.cmd = CMD_DATA
                          /\ s.state = "ESTABLISHED"
                          /\ SeqDiff(d.seq, s.una) >= 0
                          /\ insert_pos(s.recv_queue, d.seq, 1) # 0
    IN  IF takes
        THEN {[src |-> d.src, dst |-> d.dst, cmd |-> d.cmd, seq |-> d.seq,
               words |-> d.words, lo |-> d.lo, n |-> d.n]}
        ELSE {}

CallbackAllowed(s, cb) == cb.op = "send" => s.nsent + cb.n <= MaxBytes

(* One iteration of UcpClient::run whose recv_from timed out.              *)
ClientTick(cb) ==
    /\ client.running
    /\ now - client.update_time >= UPDATE_INTERVAL_MILLIS
    /\ CallbackAllowed(client.ucp, cb)
    /\ LET r == UcpClient_update(client, cb)
       IN  /\ client' = r.cl
           /\ net' = Transmit(net, r.out)
           /\ obs' = [obs EXCEPT !.broken = @ \o r.broken, !.last = None]
    /\ UNCHANGED <<port, now, server>>

CallbacksOf(cb) == [a \in Peers |-> IF a = ClientAddr THEN cb ELSE NoCallback]

ServerTick(cb) ==
    /\ now - server.update_time >= UPDATE_INTERVAL_MILLIS
    /\ \E a \in Peers : server.ucp_map[a] # None
    /\ IF server.ucp_map[ClientAddr] = None THEN cb = NoCallback
       ELSE CallbackAllowed(server.ucp_map[ClientAddr], cb)
    /\ LET r == UcpServer_update(server, CallbacksOf(cb))
       IN  /\ server' = r.sv
           /\ net' = Transmit(net, r.out)
           /\ obs' = [obs EXCEPT !.broken = @ \o r.broken, !.last = None]
    /\ UNCHANGED <<port, now, client>>

(* recv_from returns the datagram d.                                       *)
ClientReceive(d) ==
    /\ client.running
    /\ d.dst = ClientAddr
    /\ obs.delivered < obs.budget
    /\ LET r == UcpClient_process_packet(client, d)
       IN  /\ client' = r.cl
           /\ net' = Transmit(net, r.out)
    /\ obs' = [obs EXCEPT !.delivered = @ + 1,
                         !.last = IF obs.watch THEN d ELSE @,
                         !.got = @ \cup Taken(client.ucp, d)]
    /\ UNCHANGED <<port, now, server>>

ServerReceive(d) ==
    /\ d.dst = ServerAddr
    /\ obs.delivered < obs.budget
    /\ LET r == UcpServer_process_packet(server, d, obs.streams + 1)
       IN  /\ server' = r.sv
           /\ net' = Transmit(net, r.out)
           /\ obs' = [obs EXCEPT !.streams = @ + r.created,
                                 !.delivered = @ + 1,
                                 !.last = IF obs.watch THEN d ELSE @,
                                 !.got = @ \cup Taken(server.ucp_map[d.src],
                                                      d)]
    /\ UNCHANGED <<port, now, client>>

Advance(dt) ==
    /\ now + dt <= MaxSteps * Step
    /\ now' = now + dt
    /\ obs' = [obs EXCEPT !.last = None]
    /\ UNCHANGED <<port, client, server, net>>

Next ==
    \/ \E cb \in ClientCallbacks : ClientTick(cb)
    \/ \E cb \in ServerCallbacks : ServerTick(cb)
    \/ \E d \in net : ClientReceive(d)
    \/ \E d \in net : ServerReceive(d)
    \/ Advance(Step)

Spec == Init /\ [][Next]_vars

(* The specification in which the server's application sends before the    *)
(* handshake has completed, and the client's application only reads.       *)
DuplexClientCallbacks ==
    {NoCallback} \cup {[op |-> "recv", n |-> BUF_LEN, ret |-> TRUE]}

DuplexServerCallbacks ==
    {NoCallback} \cup {[op |-> "send", n |-> k, ret |-> TRUE] : k \in {1}}

NextDuplex ==
    \/ \E cb \in DuplexClientCallbacks : ClientTick(cb)
    \/ \E cb \in DuplexServerCallbacks : ServerTick(cb)
    \/ \E d \in net : ClientReceive(d)
    \/ \E d \in net : ServerReceive(d)
    \/ Advance(Step)

SpecDuplex == Init /\ [][NextDuplex]_vars

(* The specification in which recv_from also returns datagrams of a third  *)
(* party: copies of genuine datagrams that are truncated, have a wrong     *)
(* CRC, a cmd outside the known range, another session_id or another       *)
(* source address.  Those with a changed header field carry the CRC of the *)
(* changed header.                                                         *)
MaxWireDeliver == 5

Kinds == {"short", "crc", "cmd_lo", "cmd_hi", "session", "addr"}

Resealed(d) == [d EXCEPT !.crc = checksum_ieee(d)]

Forged(g, kind) ==
    CASE kind = "short" ->
             Resealed([g EXCEPT !.size = UCP_PACKET_META_SIZE - 1,
                                !.words = <<>>, !.lo = 0, !.n = 0])
      [] kind = "crc" -> [g EXCEPT !.crc = (@ + 1) % U32]
      [] kind = "cmd_lo" -> Resealed([g EXCEPT !.cmd = CMD_SYN - 1])
      [] kind = "cmd_hi" -> Resealed([g EXCEPT !.cmd = CMD_HEARTBEAT_ACK + 1])
      [] kind = "session" -> Resealed([g EXCEPT !.session_id = Add32(@, 1)])
      [] kind = "addr" -> [g EXCEPT !.src = OtherAddr]

InitWire ==
    /\ port = NoPort
    /\ now = 0
    /\ \E sid \in SessionIds : client = UcpClient_connect(sid)
    /\ server = UcpServer_listen
    /\ net = {}
    /\ obs = [broken |-> <<>>, streams |-> 0, delivered |-> 0,
              budget |-> MaxWireDeliver, last |-> None, watch |-> TRUE,
              advanced |-> 0, got |-> {}]

(* The client's application sends; the server's leaves what arrives in    *)
(* the recv_queue.                                                         *)
WireServerCallbacks == {NoCallback}

NextWire ==
    \/ \E cb \in ClientCallbacks : ClientTick(cb)
    \/ \E cb \in WireServerCallbacks : ServerTick(cb)
    \/ \E d \in net : ClientReceive(d)
    \/ \E d \in net : ServerReceive(d)
    \/ \E g \in net, kind \in Kinds : ClientReceive(Forged(g, kind))
    \/ \E g \in net, kind \in Kinds : ServerReceive(Forged(g, kind))
    \/ Advance(Step)

SpecWire == InitWire /\ [][NextWire]_vars

(* The specification of the timers: the applications are idle, and the    *)
(* clock moves by half a heartbeat interval, or by what is then left of    *)
(* the liveness timeout.                                                   *)
MaxAdvances == 3

MaxTimerDeliver == 4

HalfBeat == HEARTBEAT_INTERVAL_MILLIS \div 2

TimerSteps == {HalfBeat, UCP_STREAM_BROKEN_MILLIS - HalfBeat}

InitTimer ==
    /\ port = NoPort
    /\ now = 0
    /\ \E sid \in SessionIds : client = UcpClient_connect(sid)
    /\ server = UcpServer_listen
    /\ net = {}
    /\ obs = [broken |-> <<>>, streams |-> 0, delivered |-> 0,
              budget |-> MaxTimerDeliver, last |-> None, watch |-> TRUE,
              advanced |-> 0, got |-> {}]

TimerAdvance(dt) ==
    /\ obs.advanced < MaxAdvances
    /\ now' = now + dt
    /\ obs' = [obs EXCEPT !.advanced = @ + 1, !.last = None]
    /\ UNCHANGED <<port, client, server, net>>

NextTimer ==
    \/ ClientTick(NoCallback)
    \/ ServerTick(NoCallback)
    \/ \E d \in net : ClientReceive(d)
    \/ \E d \in net : ServerReceive(d)
    \/ \E dt \in TimerSteps : TimerAdvance(dt)

SpecTimer == InitTimer /\ [][NextTimer]_vars

(* The specification of two idle peers on a channel that loses and         *)
(* duplicates nothing: net is the bag of the datagrams in flight, each     *)
(* with the time at which recv_from returns it: the time it was sent at,   *)
(* or obs.delay later once the channel has become slow (obs.slow).  The    *)
(* clock moves in steps of the heartbeat interval, and only when both run  *)
(* loops have ticked and every datagram that is due has been received.     *)
MaxBeats == 9

(* The largest delay of the channel: with and without room for one         *)
(* heartbeat interval before the liveness timeout.                         *)
Delays ==
    {UCP_STREAM_BROKEN_MILLIS - 2 * HEARTBEAT_INTERVAL_MILLIS,
     UCP_STREAM_BROKEN_MILLIS - HEARTBEAT_INTERVAL_MILLIS}

InitKeepalive ==
    /\ port = NoPort
    /\ now = 0
    /\ \E sid \in SessionIds : client = UcpClient_connect(sid)
    /\ server = UcpServer_listen
    /\ net = EmptyBag
    /\ \E delay \in Delays :
           obs = [broken |-> <<>>, streams |-> 0, delivered |-> 0,
                  budget |-> 0, last |-> None, watch |-> TRUE,
                  advanced |-> 0, got |-> {}, delay |-> delay, slow |-> FALSE]

(* When a datagram sent now arrives.                                       *)
Arrival == IF obs.slow THEN now + obs.delay ELSE now

(* send_to: the datagrams of out are in flight.                            *)
RECURSIVE Posted(_, _)
Posted(n, out) ==
    IF out = <<>> THEN n
    ELSE Posted(n (+) SetToBag({[d |-> Head(out), at |-> Arrival]}),
                Tail(out))

KeepaliveClientTick ==
    /\ client.running
    /\ now - client.update_time >= UPDATE_INTERVAL_MILLIS
    /\ LET r == UcpClient_update(client, NoCallback)
       IN  /\ client' = r.cl
           /\ net' = Posted(net, r.out)
           /\ obs' = [obs EXCEPT !.broken = @ \o r.broken, !.last = None]
    /\ UNCHANGED <<port, now, server>>

KeepaliveServerTick ==
    /\ now - server.update_time >= UPDATE_INTERVAL_MILLIS
    /\ LET r == UcpServer_update(server, CallbacksOf(NoCallback))
       IN  /\ server' = r.sv
           /\ net' = Posted(net, r.out)
           /\ obs' = [obs EXCEPT !.broken = @ \o r.broken, !.last = None]
    /\ UNCHANGED <<port, now, client>>

KeepaliveClientReceive(m) ==
    /\ client.running
    /\ m.d.dst = ClientAddr
    /\ m.at = now
    /\ LET r == UcpClient_process_packet(client, m.d)
       IN  /\ client' = r.cl
           /\ net' = Posted(net (-) SetToBag({m}), r.out)
    /\ obs' = [obs EXCEPT !.last = m.d]
    /\ UNCHANGED <<port, now, server>>

KeepaliveServerReceive(m) ==
    /\ m.d.dst = ServerAddr
    /\ m.at = now
    /\ LET r == UcpServer_process_packet(server, m.d, obs.streams + 1)
       IN  /\ server' = r.sv
           /\ net' = Posted(net (-) SetToBag({m}), r.out)
           /\ obs' = [obs EXCEPT !.streams = @ + r.created, !.last = m.d]
    /\ UNCHANGED <<port, now, client>>

(* A datagram in flight whose time has come and whose receiver runs.       *)
Due(m) == m.at <= now /\ (m.d.dst = ClientAddr => client.running)

KeepaliveAdvance ==
    /\ now < MaxBeats * HEARTBEAT_INTERVAL_MILLIS
    /\ client.running => now - client.update_time < UPDATE_INTERVAL_MILLIS
    /\ now - server.update_time < UPDATE_INTERVAL_MILLIS
    /\ \A m \in BagToSet(net) : ~Due(m)
    /\ now' = now + HEARTBEAT_INTERVAL_MILLIS
    /\ obs' = [obs EXCEPT !.last = None]
    /\ UNCHANGED <<port, client, server, net>>

(* From now on the channel is slow.                                        *)
Congest ==
    /\ ~obs.slow
    /\ obs' = [obs EXCEPT !.slow = TRUE, !.last = None]
    /\ UNCHANGED <<port, now, client, server, net>>

NextKeepalive ==
    \/ KeepaliveClientTick
    \/ KeepaliveServerTick
    \/ \E m \in BagToSet(net) : KeepaliveClientReceive(m)
    \/ \E m \in BagToSet(net) : KeepaliveServerReceive(m)
    \/ KeepaliveAdvance
    \/ Congest

SpecKeepalive == InitKeepalive /\ [][NextKeepalive]_vars

(* The specification in which the server also receives datagrams of a      *)
(* peer that advertises a window of 0 in its header, and the server's      *)
(* application sends.                                                      *)
ZeroWindow(g) == Resealed([g EXCEPT !.window = 0])

NextWindow ==
    \/ ClientTick(NoCallback)
    \/ \E cb \in DuplexServerCallbacks : ServerTick(cb)
    \/ \E d \in net : ClientReceive(d)
    \/ \E d \in net : ServerReceive(d)
    \/ \E g \in net : ServerReceive(ZeroWindow(g))
    \/ Advance(Step)

SpecWindow == Init /\ [][NextWindow]_vars

(* The specification in which both applications send and the clock runs   *)
(* long enough for a DATA packet to be retransmitted: the copies of one    *)
(* packet then arrive at different times and with different una.           *)
MaxEchoSteps == 3

MaxEchoDeliver == 6

(* Each application sends one byte in the first tick of its stream and    *)
(* reads in the later ones.                                                *)
EchoCallback(s) ==
    IF s = None THEN NoCallback
    ELSE IF s.nsent = 0 THEN [op |-> "send", n |-> 1, ret |-> TRUE]
    ELSE [op |-> "recv", n |-> BUF_LEN, ret |-> TRUE]

InitEcho ==
    /\ port = NoPort
    /\ now = 0
    /\ \E sid \in SessionIds : client = UcpClient_connect(sid)
    /\ server = UcpServer_listen
    /\ net = {}
    /\ obs = [broken |-> <<>>, streams |-> 0, delivered |-> 0,
              budget |-> MaxEchoDeliver, last |-> None, watch |-> FALSE,
              advanced |-> 0, got |-> {}]

EchoAdvance ==
    /\ now + Step <= MaxEchoSteps * Step
    /\ now' = now + Step
    /\ obs' = [obs EXCEPT !.last = None]
    /\ UNCHANGED <<port, client, server, net>>

NextEcho ==
    \/ ClientTick(EchoCallback(client.ucp))
    \/ ServerTick(EchoCallback(server.ucp_map[ClientAddr]))
    \/ \E d \in net : ClientReceive(d)
    \/ \E d \in net : ServerReceive(d)
    \/ EchoAdvance

SpecEcho == InitEcho /\ [][NextEcho]_vars

(* The specification of a fair lossy channel and regular ticks.  net holds *)
(* the datagrams in flight: each is delivered once or lost, and the        *)
(* channel loses at most MaxLoss datagrams in all (obs.lost counts them,   *)
(* obs.lostcmds holds their cmds).  Both endpoints tick at every instant   *)
(* of the clock, which advances by Step when they have ticked and nothing  *)
(* is in flight; it stops at FairHorizon, late enough for every lost       *)
(* datagram to have been retransmitted.                                    *)
MaxLoss == 3

FairHorizon == (2 * MaxLoss + 3) * Step

InitFair ==
    /\ port = NoPort
    /\ now = 0
    /\ \E sid \in SessionIds : client = UcpClient_connect(sid)
    /\ server = UcpServer_listen
    /\ net = {}
    /\ obs = [broken |-> <<>>, streams |-> 0, delivered |-> 0,
              budget |-> 0, last |-> None, watch |-> FALSE,
              advanced |-> 0, got |-> {}, lost |-> 0, lostcmds |-> {}]

FairClientReceive(d) ==
    /\ client.running
    /\ d.dst = ClientAddr
    /\ LET r == UcpClient_process_packet(client, d)
       IN  /\ client' = r.cl
           /\ net' = Transmit(net \ {d}, r.out)
    /\ UNCHANGED <<port, now, server, obs>>

FairServerReceive(d) ==
    /\ d.dst = ServerAddr
    /\ LET r == UcpServer_process_packet(server, d, obs.streams + 1)
       IN  /\ server' = r.sv
           /\ net' = Transmit(net \ {d}, r.out)
           /\ obs' = [obs EXCEPT !.streams = @ + r.created]
    /\ UNCHANGED <<port, now, client>>

Lose(d) ==
    /\ obs.lost < MaxLoss
    /\ net' = net \ {d}
    /\ obs' = [obs EXCEPT !.lost = @ + 1, !.lostcmds = @ \cup {d.cmd}]
    /\ UNCHANGED <<port, now, client, server>>

(* Both run loops have called update at this instant.                      *)
Ticked ==
    /\ client.running => now - client.update_time < UPDATE_INTERVAL_MILLIS
    /\ (\E a \in Peers : server.ucp_map[a] # None)
           => now - server.update_time < UPDATE_INTERVAL_MILLIS

FairAdvance ==
    /\ net = {}
    /\ Ticked
    /\ now + Step <= FairHorizon
    /\ now' = now + Step
    /\ UNCHANGED <<port, client, server, net, obs>>

FairReceive == \E d \in net : FairClientReceive(d) \/ FairServerReceive(d)

(* When each loop has work: update is due, recv_from has a datagram.  Each *)
(* of these steps changes the state (update_time, net), so these are the   *)
(* conditions under which it is enabled.                                   *)
ClientTickDue ==
    client.running /\ now - client.update_time >= UPDATE_INTERVAL_MILLIS

ServerTickDue ==
    /\ \E a \in Peers : server.ucp_map[a] # None
    /\ now - server.update_time >= UPDATE_INTERVAL_MILLIS

ReceiveDue ==
    \E d \in net : d.dst = ServerAddr \/ (d.dst = ClientAddr /\ client.running)

NextFair ==
    \/ ClientTick(NoCallback)
    \/ ServerTick(NoCallback)
    \/ \E d \in net : FairClientReceive(d)
    \/ \E d \in net : FairServerReceive(d)
    \/ \E d \in net : Lose(d)
    \/ FairAdvance

(* Weak fairness of the two update loops and of recv_from, with the        *)
(* enabling conditions written out, and of the clock.                      *)
SpecFair ==
    /\ InitFair
    /\ [][NextFair]_vars
    /\ []<>(~ClientTickDue) \/ []<><<ClientTick(NoCallback)>>_vars
    /\ []<>(~ServerTickDue) \/ []<><<ServerTick(NoCallback)>>_vars
    /\ []<>(~ReceiveDue) \/ []<><<FairReceive>>_vars
    /\ WF_vars(FairAdvance)

(* The same channel and ticks, with the client's application passing      *)
(* MaxBytes bytes to send in its first tick and the server's application   *)
(* calling recv in every tick.                                             *)
FairSender(s) ==
    IF s.nsent = 0 THEN [op |-> "send", n |-> MaxBytes, ret |-> TRUE]
    ELSE NoCallback

FairReader == [op |-> "recv", n |-> BUF_LEN, ret |-> TRUE]

NextFairData ==
    \/ ClientTick(FairSender(client.ucp))
    \/ ServerTick(FairReader)
    \/ \E d \in net : FairClientReceive(d)
    \/ \E d \in net : FairServerReceive(d)
    \/ \E d \in net : Lose(d)
    \/ FairAdvance

SpecFairData ==
    /\ InitFair
    /\ [][NextFairData]_vars
    /\ []<>(~ClientTickDue) \/ []<><<ClientTick(FairSender(client.ucp))>>_vars
    /\ []<>(~ServerTickDue) \/ []<><<ServerTick(FairReader)>>_vars
    /\ []<>(~ReceiveDue) \/ []<><<FairReceive>>_vars
    /\ WF_vars(FairAdvance)

(* The specification of a connection that has been up for long: both      *)
(* streams are ESTABLISHED and idle, the client has used up all but the    *)
(* last one or two sequence numbers below the modulus and the server has   *)
(* received every packet it sent, so that the seqs of the next DATA        *)
(* packets wrap around.  The bytes are numbered from this moment on.       *)
WrapSeqs == {Sub32(0, 2), Sub32(0, 1)}

Established(local_addr, remote_addr, id, session_id, seq, una) ==
    [UcpStream_new(local_addr, remote_addr, id) EXCEPT
        !.state = "ESTABLISHED", !.session_id = session_id,
        !.seq = seq, !.una = una]

InitWrap ==
    /\ port = NoPort
    /\ now = 0
    /\ \E sid \in SessionIds, seq \in WrapSeqs :
           /\ client = [ucp |-> Established(ClientAddr, ServerAddr, 0, sid,
                                            seq, 2),
                        update_time |-> now, running |-> TRUE]
           /\ server = [ucp_map |->
                            [a \in Peers |->
                                IF a = ClientAddr
                                THEN Established(ServerAddr, ClientAddr, 1,
                                                 sid, 1, Add32(seq, 1))
                                ELSE None],
                        update_time |-> now]
    /\ net = {}
    /\ obs = [broken |-> <<>>, streams |-> 1, delivered |-> 0,
              budget |-> MaxEchoDeliver, last |-> None, watch |-> TRUE,
              advanced |-> 0, got |-> {}]

(* The client's application sends MaxBytes bytes in its first tick, the    *)
(* server's application reads in every tick, and the clock runs long       *)
(* enough for a second round of acknowledgements and a retransmission.     *)
NextWrap ==
    \/ ClientTick(FairSender(client.ucp))
    \/ ServerTick(FairReader)
    \/ \E d \in net : ClientReceive(d)
    \/ \E d \in net : ServerReceive(d)
    \/ EchoAdvance

SpecWrap == InitWrap /\ [][NextWrap]_vars

(* The specification of an idle ESTABLISHED connection (the handshake has   *)
(* just completed, with rto at DEFAULT_RTO) whose run loops are woken by   *)
(* datagrams more often than rto: the clock advances by ResendStep ms, at  *)
(* most MaxResendSteps times.  The client's application sends MaxBytes     *)
(* bytes in its first tick and the server's application reads.             *)
ResendStep == 40

MaxResendSteps == 3

InitResend ==
    /\ port = NoPort
    /\ now = 0
    /\ \E sid \in SessionIds :
           /\ client = [ucp |-> Established(ClientAddr, ServerAddr, 0, sid,
                                            1, 2),
                        update_time |-> now, running |-> TRUE]
           /\ server = [ucp_map |->
                            [a \in Peers |->
                                IF a = ClientAddr
                                THEN Established(ServerAddr, ClientAddr, 1,
                                                 sid, 1, 2)
                                ELSE None],
                        update_time |-> now]
    /\ net = {}
    /\ obs = [broken |-> <<>>, streams |-> 1, delivered |-> 0,
              budget |-> MaxEchoDeliver, last |-> None, watch |-> FALSE,
              advanced |-> 0, got |-> {}]

ResendAdvance ==
    /\ now + ResendStep <= MaxResendSteps * ResendStep
    /\ now' = now + ResendStep
    /\ obs' = [obs EXCEPT !.last = None]
    /\ UNCHANGED <<port, client, server, net>>

NextResend ==
    \/ ClientTick(FairSender(client.ucp))
    \/ ServerTick(FairReader)
    \/ \E d \in net : ClientReceive(d)
    \/ \E d \in net : ServerReceive(d)
    \/ ResendAdvance

SpecResend == InitResend /\ [][NextResend]_vars

(* The specification of an ESTABLISHED connection whose server advertises  *)
(* the window NarrowWindow in every packet, the client's remote_window     *)
(* being that value from the start.  The client's application sends one    *)
(* byte in each of its first MaxNarrowSends ticks, so that each byte gets  *)
(* a DATA packet of its own; the clock advances MaxNarrowSteps times and   *)
(* the channel delivers at most MaxNarrowDeliver datagrams.                *)
NarrowWindow == 2

MaxNarrowSends == 3

MaxNarrowSteps == 4

MaxNarrowDeliver == 4

NarrowSender(s) ==
    IF s.nsent < MaxNarrowSends THEN [op |-> "send", n |-> 1, ret |-> TRUE]
    ELSE NoCallback

InitNarrow ==
    /\ port = NoPort
    /\ now = 0
    /\ \E sid \in SessionIds :
           /\ client = [ucp |-> [Established(ClientAddr, ServerAddr, 0, sid,
                                             1, 2)
                                    EXCEPT !.remote_window = NarrowWindow],
                        update_time |-> now, running |-> TRUE]
           /\ server = [ucp_map |->
                            [a \in Peers |->
                                IF a = ClientAddr
                                THEN [Established(ServerAddr, ClientAddr, 1,
                                                  sid, 1, 2)
                                         EXCEPT !.local_window = NarrowWindow]
                                ELSE None],
                        update_time |-> now]
    /\ net = {}
    /\ obs = [broken |-> <<>>, streams |-> 1, delivered |-> 0,
              budget |-> MaxNarrowDeliver, last |-> None, watch |-> FALSE,
              advanced |-> 0, got |-> {}]

NarrowAdvance ==
    /\ now + Step <= MaxNarrowSteps * Step
    /\ now' = now + Step
    /\ obs' = [obs EXCEPT !.last = None]
    /\ UNCHANGED <<port, client, server, net>>

NextNarrow ==
    \/ ClientTick(NarrowSender(client.ucp))
    \/ ServerTick(FairReader)
    \/ \E d \in net : ClientReceive(d)
    \/ \E d \in net : ServerReceive(d)
    \/ NarrowAdvance

SpecNarrow == InitNarrow /\ [][NextNarrow]_vars

(* The specification of an ESTABLISHED connection observed over heartbeat  *)
(* intervals: the clock advances, at most MaxTickAdvances times, by the    *)
(* heartbeat interval or by the time after which a silent peer is taken    *)
(* for broken, and the channel delivers at most MaxTickDeliver datagrams.  *)
(* An application sends one byte in each of the first ticks of its stream  *)
(* (MaxTickSends ticks for the client, one for the server), reads in the   *)
(* later ones, and returns false from on_update once it has read a byte.   *)
MaxTickAdvances == 4

MaxTickSends == 2

MaxTickDeliver == 2

TickSteps == {HEARTBEAT_INTERVAL_MILLIS, UCP_STREAM_BROKEN_MILLIS}

TickCallback(s, sends) ==
    IF s = None THEN NoCallback
    ELSE IF s.nsent < sends THEN [op |-> "send", n |-> 1, ret |-> TRUE]
    ELSE [op |-> "recv", n |-> BUF_LEN, ret |-> s.rnext = 0]

InitTick ==
    /\ port = NoPort
    /\ now = 0
    /\ \E sid \in SessionIds :
           /\ client = [ucp |-> Established(ClientAddr, ServerAddr, 0, sid,
                                            1, 2),
                        update_time |-> now, running |-> TRUE]
           /\ server = [ucp_map |->
                            [a \in Peers |->
                                IF a = ClientAddr
                                THEN Established(ServerAddr, ClientAddr, 1,
                                                 sid, 1, 2)
                                ELSE None],
                        update_time |-> now]
    /\ net = {}
    /\ obs = [broken |-> <<>>, streams |-> 1, delivered |-> 0,
              budget |-> MaxTickDeliver, last |-> None, watch |-> FALSE,
              advanced |-> 0, got |-> {}]

TickAdvance(dt) ==
    /\ obs.advanced < MaxTickAdvances
    /\ now' = now + dt
    /\ obs' = [obs EXCEPT !.advanced = @ + 1, !.last = None]
    /\ UNCHANGED <<port, client, server, net>>

NextTick ==
    \/ ClientTick(TickCallback(client.ucp, MaxTickSends))
    \/ ServerTick(TickCallback(server.ucp_map[ClientAddr], 1))
    \/ \E d \in net : ClientReceive(d)
    \/ \E d \in net : ServerReceive(d)
    \/ \E dt \in TickSteps : TickAdvance(dt)

SpecTick == InitTick /\ [][NextTick]_vars

(* The specification of a server stream that is made anew: the             *)
(* applications are idle, and the clock moves as ReplayClock lists, twice  *)
(* by half a heartbeat interval, then by what is left of the liveness      *)
(* timeout, then by half a heartbeat interval again, so that the stream    *)
(* the server made on the first SYN is broken and removed while datagrams  *)
(* of the handshake are still on the channel.                              *)
MaxReplayDeliver == 4

ReplayClock ==
    <<HalfBeat, HalfBeat, UCP_STREAM_BROKEN_MILLIS - HalfBeat, HalfBeat>>

InitReplay ==
    /\ port = NoPort
    /\ now = 0
    /\ \E sid \in SessionIds : client = UcpClient_connect(sid)
    /\ server = UcpServer_listen
    /\ net = {}
    /\ obs = [broken |-> <<>>, streams |-> 0, delivered |-> 0,
              budget |-> MaxReplayDeliver, last |-> None, watch |-> FALSE,
              advanced |-> 0, got |-> {}]

ReplayAdvance ==
    /\ obs.advanced < Len(ReplayClock)
    /\ now' = now + ReplayClock[obs.advanced + 1]
    /\ obs' = [obs EXCEPT !.advanced = @ + 1, !.last = None]
    /\ UNCHANGED <<port, client, server, net>>

NextReplay ==
    \/ ClientTick(NoCallback)
    \/ ServerTick(NoCallback)
    \/ \E d \in net : ClientReceive(d)
    \/ \E d \in net : ServerReceive(d)
    \/ ReplayAdvance

SpecReplay == InitReplay /\ [][NextReplay]_vars

-----------------------------------------------------------------------------
(* The SOCKS5 adapter: run_tunnel_port, process_read, process_write.       *)
(* port.pc is the position of run_tunnel_port; port.rd and port.wr are the *)
(* positions of the two joined copies process_read and process_write;      *)
(* port.calls lists the calls made on write_port and port.rcalls those     *)
(* made on read_port; port.replies lists the SOCKS5 replies attempted,     *)
(* each with whether it was written; port.first is the first message read  *)
(* from the port; port.shut_rd and port.shut_wr tell which directions of   *)
(* the TCP connection have been shut down.                                 *)

(* The task copies at most MaxWrites buffers from the TCP connection and   *)
(* at most MaxReads messages from the port.                                *)
MaxWrites == 3

MaxReads == 2

(* The results of socks5::handshake.                                       *)
Handshakes == {"address", "domain_name", "error"}

(* The first message of the port: ConnectOk with an address that resolves, *)
(* with one that resolves to nothing, with one that from_utf8 or           *)
(* to_socket_addrs rejects; or any other message.                          *)
OtherMsgs == {"ConnectFailed", "ShutdownWrite", "ClosePort", "Data"}

FirstMsgs == {"ConnectOk", "ConnectOk_no_addr", "ConnectOk_invalid"}
                 \cup OtherMsgs

(* The results of stream.read in process_read.                             *)
ReadResults == {"eof", "data", "error"}

(* The messages read_port.read returns in process_write.                   *)
PortMsgs == {"Data", "ShutdownWrite", "ClosePort"}

NewPort ==
    [pc |-> "handshake", rd |-> "idle", wr |-> "idle", calls |-> <<>>,
     rcalls |-> <<>>, replies |-> <<>>, first |-> "none", addr |-> FALSE,
     shut_rd |-> FALSE, shut_wr |-> FALSE]

(* The match on socks5::handshake.                                         *)
handshake(p, res) ==
    CASE res = "address" ->
             [p EXCEPT !.calls = Append(@, "connect"), !.pc = "read"]
      [] res = "domain_name" ->
             [p EXCEPT !.calls = Append(@, "connect_domain_name"),
                       !.pc = "read"]
      [] OTHER -> [p EXCEPT !.calls = Append(@, "close"), !.pc = "done"]

(* let addr = match read_port.read().await: the unwraps panic on an        *)
(* address that is not UTF-8 or does not parse, which ends the task.       *)
first_read(p, msg) ==
    [p EXCEPT !.rcalls = Append(@, "read"),
              !.first = msg,
              !.addr = (msg = "ConnectOk"),
              !.pc = IF msg = "ConnectOk_invalid" THEN "panicked"
                     ELSE "reply"]

success_unreached_ok(addr, written) == written

(* let success = match addr.                                               *)
success(addr, written) == IF addr THEN written ELSE written /\ FALSE

(* The SOCKS5 reply and what follows it.                                   *)
reply(p, written) ==
    LET p1 == [p EXCEPT !.replies =
                   Append(@, [kind |-> IF p.addr THEN "connected"
                                       ELSE "unreached",
                              written |-> written])]
    IN  IF success(p.addr, written)
        THEN [p1 EXCEPT !.pc = "copy", !.rd = "run", !.wr = "run"]
        ELSE [p1 EXCEPT !.shut_rd = TRUE, !.shut_wr = TRUE,
                        !.rcalls = Append(@, "drain"),
                        !.calls = Append(@, "close"),
                        !.pc = "done"]

(* run_tunnel_port returns when both joined copies have ended.             *)
joined(p) ==
    IF p.rd = "done" /\ p.wr = "done" THEN [p EXCEPT !.pc = "done"] ELSE p

process_read_no_break(p, res) ==
    CASE res = "eof" ->
             [p EXCEPT !.shut_rd = TRUE,
                       !.calls = @ \o <<"shutdown_write", "drop">>]
      [] res = "data" -> [p EXCEPT !.calls = Append(@, "write")]
      [] OTHER ->
             joined([p EXCEPT !.shut_rd = TRUE, !.shut_wr = TRUE,
                              !.calls = Append(@, "close"),
                              !.rd = "done"])

(* One turn of the loop of process_read.                                   *)
process_read(p, res) ==
    CASE res = "eof" ->
             joined([p EXCEPT !.shut_rd = TRUE,
                              !.calls = @ \o <<"shutdown_write", "drop">>,
                              !.rd = "done"])
      [] res = "data" -> [p EXCEPT !.calls = Append(@, "write")]
      [] OTHER ->
             joined([p EXCEPT !.shut_rd = TRUE, !.shut_wr = TRUE,
                              !.calls = Append(@, "close"),
                              !.rd = "done"])

(* One turn of the loop of process_write; written is the result of         *)
(* write_all.                                                              *)
process_write(p, msg, written) ==
    LET p1 == [p EXCEPT !.rcalls = Append(@, "read")]
    IN  CASE msg = "Data" /\ written -> p1
          [] msg = "ShutdownWrite" ->
                 joined([p1 EXCEPT !.shut_wr = TRUE,
                                   !.rcalls = @ \o <<"drain", "drop">>,
                                   !.wr = "done"])
          [] OTHER ->
                 joined([p1 EXCEPT !.shut_rd = TRUE, !.shut_wr = TRUE,
                                   !.rcalls = @ \o <<"drain", "close">>,
                                   !.wr = "done"])

Count(q, x) == Cardinality({i \in 1..Len(q) : q[i] = x})

InitPort ==
    /\ now = 0
    /\ client = None
    /\ server = None
    /\ net = {}
    /\ obs = None
    /\ port = NewPort

Handshake(res) ==
    /\ port.pc = "handshake"
    /\ port' = handshake(port, res)
    /\ UNCHANGED <<now, client, server, net, obs>>

FirstRead(msg) ==
    /\ port.pc = "read"
    /\ port' = first_read(port, msg)
    /\ UNCHANGED <<now, client, server, net, obs>>

Reply(written) ==
    /\ port.pc = "reply"
    /\ port' = reply(port, written)
    /\ UNCHANGED <<now, client, server, net, obs>>

(* stream.read returns; once the connection is shut down for reading it    *)
(* returns no more data.                                                   *)
ReadTurn(res) ==
    /\ port.pc = "copy"
    /\ port.rd = "run"
    /\ res = "data" => ~port.shut_rd /\ Count(port.calls, "write") < MaxWrites
    /\ port' = process_read(port, res)
    /\ UNCHANGED <<now, client, server, net, obs>>

(* read_port.read returns.                                                 *)
WriteTurn(msg, written) ==
    /\ port.pc = "copy"
    /\ port.wr = "run"
    /\ (msg = "Data" /\ written) => Count(port.rcalls, "read") <= MaxReads
    /\ port' = process_write(port, msg, written)
    /\ UNCHANGED <<now, client, server, net, obs>>

NextPort ==
    \/ \E res \in Handshakes : Handshake(res)
    \/ \E msg \in FirstMsgs : FirstRead(msg)
    \/ \E written \in BOOLEAN : Reply(written)
    \/ \E res \in ReadResults : ReadTurn(res)
    \/ \E msg \in PortMsgs, written \in BOOLEAN : WriteTurn(msg, written)

SpecPort == InitPort /\ [][NextPort]_vars

-----------------------------------------------------------------------------
(* Properties.                                                             *)

(* The server's stream for the client, None when the table has none.       *)
Srv == server.ucp_map[ClientAddr]

Streams == ({client.ucp} \cup {server.ucp_map[a] : a \in Peers}) \ {None}

(* old and new are the same stream object before and after a step.         *)
SameStream(old, new) == old # None /\ new # None /\ old.id = new.id

(* C1: the bytes the server's recv calls have returned are, in order and   *)
(* without gap or repetition, the first bytes the client passed to send    *)
(* (and likewise in the other direction), under loss, duplication and      *)
(* reordering.                                                             *)
C1_InOrderPrefix ==
    /\ Srv # None => Srv.rok /\ Srv.rnext <= client.ucp.nsent
    /\ Srv # None => client.ucp.rok /\ client.ucp.rnext <= Srv.nsent
    /\ Srv = None => client.ucp.rnext = 0

(* All the bytes of a send that was split into two DATA packets have been  *)
(* read, the last read leaving nothing behind.                             *)
C1_Witness ==
    /\ Srv # None
    /\ Srv.rnext = MaxBytes
    /\ client.ucp.nsent = MaxBytes
    /\ MaxBytes > BUF_LEN - UCP_PACKET_META_SIZE

(* una changes only at the handshake (CONNECTING to ESTABLISHED; a server  *)
(* stream is created with its una set) or forward, on a DATA arrival.      *)
UnaStep(old, new) ==
    \/ new.una = old.una
    \/ old.state = "CONNECTING" /\ new.state = "ESTABLISHED"
    \/ /\ old.state = "ESTABLISHED" /\ new.state = "ESTABLISHED"
       /\ SeqDiff(new.una, old.una) > 0
       /\ Len(new.ack_list) = Len(old.ack_list) + 1

(* C2: una of a stream never decreases: it is set at the handshake and     *)
(* afterwards only moves forward, when process_data takes a DATA packet.   *)
C2_UnaMonotone ==
    [][/\ UnaStep(client.ucp, client'.ucp)
       /\ \A a \in Peers :
              SameStream(server.ucp_map[a], server'.ucp_map[a])
                  => UnaStep(server.ucp_map[a], server'.ucp_map[a])]_vars

(* The server's una has moved past two DATA packets.                       *)
C2_Witness == Srv # None /\ Srv.state = "ESTABLISHED" /\ Srv.una = 4

StrictlyIncreasing(q) ==
    \A i \in 1..(Len(q) - 1) : SeqDiff(q[i].seq, q[i + 1].seq) < 0

(* C3: the recv_queue of every stream is strictly increasing by seq.       *)
C3_RecvQueueSorted == \A s \in Streams : StrictlyIncreasing(s.recv_queue)

(* Two DATA packets wait in the recv_queue, the first of them partly read. *)
C3_Witness ==
    /\ Srv # None
    /\ Len(Srv.recv_queue) = 2
    /\ Srv.recv_queue[1].read_pos > UCP_PACKET_META_SIZE

StateStep(old, new) ==
    \/ new.state = old.state
    \/ <<old.state, new.state>> \in
           {<<"NONE", "CONNECTING">>, <<"NONE", "ACCEPTING">>,
            <<"CONNECTING", "ESTABLISHED">>, <<"ACCEPTING", "ESTABLISHED">>}

(* C4: the state of a stream moves only along NONE to CONNECTING or        *)
(* ACCEPTING, and CONNECTING or ACCEPTING to ESTABLISHED.                  *)
C4_StateOneWay ==
    [][/\ StateStep(client.ucp, client'.ucp)
       /\ \A a \in Peers :
              SameStream(server.ucp_map[a], server'.ucp_map[a])
                  => StateStep(server.ucp_map[a], server'.ucp_map[a])]_vars

(* Both sides are ESTABLISHED and the channel still holds the SYN.         *)
C4_Witness ==
    /\ Srv # None /\ Srv.state = "ESTABLISHED"
    /\ client.ucp.state = "ESTABLISHED"
    /\ \E d \in net : d.cmd = CMD_SYN

(* C5: in the handshake of a fresh client and a fresh server stream, when  *)
(* either side is ESTABLISHED both hold the session_id the client drew,    *)
(* and a side becomes ESTABLISHED with una = 2.                            *)
C5_Handshake ==
    [][/\ (Srv' # None /\ "ESTABLISHED" \in {client'.ucp.state, Srv'.state})
              => Srv'.session_id = client'.ucp.session_id
       /\ (client.ucp.state # "ESTABLISHED"
              /\ client'.ucp.state = "ESTABLISHED") => client'.ucp.una = 2
       /\ (Srv' # None /\ Srv'.state = "ESTABLISHED"
              /\ (Srv = None \/ Srv.state # "ESTABLISHED"))
              => Srv'.una = 2]_vars

C5_Witness ==
    /\ Srv # None /\ Srv.state = "ESTABLISHED" /\ Srv.una = 2
    /\ client.ucp.state = "ESTABLISHED" /\ client.ucp.una = 2
    /\ client.ucp.seq = 1 /\ Srv.seq = 1

(* The ACK d acknowledges the SYN_ACK that the stream s has in flight.     *)
AcksSynAck(s, d) ==
    /\ parse(d) /\ d.cmd = CMD_ACK /\ d.size - UCP_PACKET_META_SIZE = 8
    /\ \E i \in 1..Len(s.send_queue) :
           /\ s.send_queue[i].cmd = CMD_SYN_ACK
           /\ s.send_queue[i].seq = payload_word(parsed(d), 1)

(* C6: a server-side stream goes from ACCEPTING to ESTABLISHED only by     *)
(* receiving an ACK with an 8-byte payload whose echoed seq is the seq of  *)
(* its in-flight SYN_ACK.                                                  *)
C6_EstablishedBySynAckAck ==
    [][\A a \in Peers :
          (/\ SameStream(server.ucp_map[a], server'.ucp_map[a])
           /\ server.ucp_map[a].state = "ACCEPTING"
           /\ server'.ucp_map[a].state = "ESTABLISHED")
          => \E d \in net :
                 /\ d.dst = ServerAddr /\ d.src = a
                 /\ AcksSynAck(server.ucp_map[a], d)
                 /\ server' = UcpServer_process_packet(
                                  server, d, obs.streams + 1).sv]_vars

(* The datagram d is one the client drops: it fails parse, or comes from   *)
(* another address than the stream's remote_addr, or carries another       *)
(* session_id than the stream, whose state is not NONE.                    *)
DroppedByClient(d) ==
    /\ d.dst = ClientAddr
    /\ \/ ~parse(d)
       \/ d.src # client.ucp.remote_addr
       \/ /\ client.ucp.state # "NONE"
          /\ d.session_id # client.ucp.session_id

(* The datagram d is one the server drops: it fails parse, or carries      *)
(* another session_id than the stream of its source address, whose state   *)
(* is not NONE, or is not a SYN and comes from an address that is the      *)
(* remote_addr of no stream.                                               *)
DroppedByServer(d) ==
    /\ d.dst = ServerAddr
    /\ \/ ~parse(d)
       \/ /\ server.ucp_map[d.src] # None
          /\ server.ucp_map[d.src].state # "NONE"
          /\ d.session_id # server.ucp_map[d.src].session_id
       \/ server.ucp_map[d.src] = None /\ d.cmd # CMD_SYN

(* C7: when recv_from returns a datagram that fails parse (size < 29, bad  *)
(* CRC, cmd outside 128..133), comes from another address than the         *)
(* stream's remote_addr, or carries another session_id than a stream whose *)
(* state is not NONE, no field of any stream changes and no datagram is    *)
(* sent; and the server never changes the stream of another address than   *)
(* the datagram's source.                                                  *)
C7_BadDatagramDropped ==
    [][obs'.delivered # obs.delivered =>
          /\ (DroppedByClient(obs'.last) \/ DroppedByServer(obs'.last))
                 => UNCHANGED <<client, server, net>>
          /\ \A a \in Peers :
                 a # obs'.last.src => server'.ucp_map[a] = server.ucp_map[a]]_vars

(* The server's ESTABLISHED stream, holding DATA it has not yet            *)
(* acknowledged, has just been handed a well-formed DATA datagram of       *)
(* another session.                                                        *)
C7_Witness ==
    /\ obs.last # None
    /\ DroppedByServer(obs.last)
    /\ parse(obs.last) /\ obs.last.cmd = CMD_DATA
    /\ Srv # None /\ Srv.state = "ESTABLISHED"
    /\ obs.last.src = ClientAddr
    /\ Srv.ack_list # <<>> /\ Srv.recv_queue # <<>>

(* The number of times on_broken was invoked for the stream id.            *)
BrokenCount(log, id) == Cardinality({i \in 1..Len(log) : log[i] = id})

(* C8: a tick of the server that finds a stream whose alive_time is        *)
(* 20000 ms old or older invokes on_broken for it, gets false from update  *)
(* and leaves the table without it, and leaves the other streams in the    *)
(* table; on_broken is invoked at most once for a stream; afterwards a     *)
(* datagram from that address that is not a SYN is dropped, and a SYN      *)
(* creates a new stream.                                                   *)
C8_BrokenOnceAndRemoved ==
    [][/\ server'.update_time # server.update_time =>
              \A a \in Peers :
                  server.ucp_map[a] # None =>
                      IF now - server.ucp_map[a].alive_time
                             >= UCP_STREAM_BROKEN_MILLIS
                      THEN /\ ~update(server.ucp_map[a], NoCallback).alive
                           /\ server'.ucp_map[a] = None
                           /\ BrokenCount(obs.broken,
                                          server.ucp_map[a].id) = 0
                           /\ BrokenCount(obs'.broken,
                                          server.ucp_map[a].id) = 1
                      ELSE /\ SameStream(server.ucp_map[a],
                                         server'.ucp_map[a])
                           /\ BrokenCount(obs'.broken,
                                          server.ucp_map[a].id) = 0
       /\ server'.update_time = server.update_time =>
              \A a \in Peers :
                  server.ucp_map[a] # None =>
                      /\ SameStream(server.ucp_map[a], server'.ucp_map[a])
                      /\ BrokenCount(obs'.broken, server.ucp_map[a].id) = 0
       /\ (/\ obs'.delivered # obs.delivered
           /\ obs'.last.dst = ServerAddr
           /\ parse(obs'.last)
           /\ server.ucp_map[obs'.last.src] = None) =>
              IF obs'.last.cmd = CMD_SYN
              THEN /\ server'.ucp_map[obs'.last.src] # None
                   /\ server'.ucp_map[obs'.last.src].id = obs.streams + 1
                   /\ server'.ucp_map[obs'.last.src].state = "ACCEPTING"
                   /\ server'.ucp_map[obs'.last.src].alive_time = now
              ELSE UNCHANGED <<server, net>>]_vars

(* on_broken has been invoked for the server's first stream, which had     *)
(* completed the handshake, the table is without it, and the server has    *)
(* just dropped a packet of the client that is not a SYN.                  *)
C8_Witness ==
    /\ BrokenCount(obs.broken, 1) = 1
    /\ Srv = None
    /\ client.ucp.state = "ESTABLISHED"
    /\ obs.last # None /\ obs.last.dst = ServerAddr
    /\ parse(obs.last) /\ obs.last.cmd # CMD_SYN

(* The times in log, after the time from, are at least                     *)
(* HEARTBEAT_INTERVAL_MILLIS apart from from and from each other.          *)
RECURSIVE Spaced(_, _)
Spaced(log, from) ==
    \/ log = <<>>
    \/ /\ Head(log) - from >= HEARTBEAT_INTERVAL_MILLIS
       /\ Spaced(Tail(log), Head(log))

HeartbeatStep(old, new) ==
    /\ Len(new.hb_log) <= Len(old.hb_log) + 1
    /\ Spaced(new.hb_log, new.created)

(* C9: a stream emits its first HEARTBEAT 2500 ms or more after it was     *)
(* created and each further one 2500 ms or more after the one before, and  *)
(* no step emits more than one HEARTBEAT of a stream.                      *)
C9_HeartbeatSpacing ==
    [][/\ HeartbeatStep(client.ucp, client'.ucp)
       /\ \A a \in Peers :
              /\ SameStream(server.ucp_map[a], server'.ucp_map[a])
                     => HeartbeatStep(server.ucp_map[a], server'.ucp_map[a])
              /\ (server'.ucp_map[a] # None
                     /\ ~SameStream(server.ucp_map[a], server'.ucp_map[a]))
                     => server'.ucp_map[a].hb_log = <<>>]_vars

(* A stream has emitted two HEARTBEATs 2500 ms apart, having ticked        *)
(* between them without emitting one.                                      *)
C9_Witness ==
    \E s \in Streams :
        /\ Len(s.hb_log) = 2
        /\ s.hb_log[2] - s.hb_log[1] = HEARTBEAT_INTERVAL_MILLIS
        /\ s.heartbeat = s.hb_log[2]

(* The step has not invoked on_broken for an ESTABLISHED stream.           *)
NoEstablishedBroken ==
    /\ client.ucp.state = "ESTABLISHED"
           => BrokenCount(obs'.broken, client.ucp.id) = 0
    /\ \A a \in Peers :
           (server.ucp_map[a] # None
              /\ server.ucp_map[a].state = "ESTABLISHED")
               => BrokenCount(obs'.broken, server.ucp_map[a].id) = 0

(* A tick of an ESTABLISHED stream that is alive leaves it with a          *)
(* HEARTBEAT emitted less than 2500 ms ago.                                *)
Beats(old, new) ==
    (old.state = "ESTABLISHED" /\ check_if_alive(old))
        => /\ now - new.heartbeat < HEARTBEAT_INTERVAL_MILLIS
           /\ new.hb_log # <<>>
           /\ new.hb_log[Len(new.hb_log)] = new.heartbeat

(* The datagram d, which the ESTABLISHED stream old has accepted, leaving  *)
(* it as new: a HEARTBEAT is answered by one HEARTBEAT_ACK put on the      *)
(* channel at once, with no seq taken and nothing queued, and a            *)
(* HEARTBEAT_ACK by nothing; both refresh alive_time.                      *)
HeartbeatAnswered(old, new, d) ==
    LET ack == [d |-> packed_buffer(
                          pack(new_noseq_packet(new, CMD_HEARTBEAT_ACK)),
                          old.local_addr, old.remote_addr),
                at |-> Arrival]
        rest == net (-) SetToBag({[d |-> d, at |-> now]})
    IN  /\ d.cmd = CMD_HEARTBEAT =>
               /\ new = [old EXCEPT !.alive_time = now,
                                    !.remote_window = d.window]
               /\ new.seq = old.seq
               /\ new.send_buffer = old.send_buffer
               /\ new.send_queue = old.send_queue
               /\ ack.d.seq = 0
               /\ net' = rest (+) SetToBag({ack})
        /\ d.cmd = CMD_HEARTBEAT_ACK =>
               /\ new = [old EXCEPT !.alive_time = now,
                                    !.remote_window = d.window]
               /\ net' = rest

(* What the stream old, if ESTABLISHED, does in a step of the idle         *)
(* connection that leaves it as new.                                       *)
KeepaliveStep(old, new, ticked) ==
    /\ ticked => Beats(old, new)
    /\ (/\ obs'.last # None
        /\ obs'.last.dst = old.local_addr
        /\ obs'.last.src = old.remote_addr
        /\ old.state = "ESTABLISHED"
        /\ parse(obs'.last)
        /\ obs'.last.session_id = old.session_id)
           => HeartbeatAnswered(old, new, obs'.last)

(* C10: on a channel that loses nothing and delivers every datagram within *)
(* a delay that leaves room for one heartbeat interval before the 20000 ms *)
(* liveness timeout, on_broken is never invoked for an ESTABLISHED stream  *)
(* of two idle peers whose run loops keep ticking; an ESTABLISHED stream   *)
(* emits a HEARTBEAT every 2500 ms, answers each HEARTBEAT it receives by  *)
(* exactly one HEARTBEAT_ACK sent directly (no seq consumed, nothing       *)
(* queued), and refreshes alive_time on each HEARTBEAT_ACK it receives.    *)
C10_KeepaliveWithinSafeDelay ==
    [][/\ obs.delay + HEARTBEAT_INTERVAL_MILLIS < UCP_STREAM_BROKEN_MILLIS
              => NoEstablishedBroken
       /\ client.running =>
              KeepaliveStep(client.ucp, client'.ucp,
                            client'.update_time # client.update_time)
       /\ \A a \in Peers :
              SameStream(server.ucp_map[a], server'.ucp_map[a])
                  => KeepaliveStep(server.ucp_map[a], server'.ucp_map[a],
                                   server'.update_time # server.update_time)
      ]_vars

(* The statement for every delay below the liveness timeout.               *)
C10_KeepaliveWithin20s ==
    [][/\ obs.delay < UCP_STREAM_BROKEN_MILLIS => NoEstablishedBroken
       /\ client.running =>
              KeepaliveStep(client.ucp, client'.ucp,
                            client'.update_time # client.update_time)
       /\ \A a \in Peers :
              SameStream(server.ucp_map[a], server'.ucp_map[a])
                  => KeepaliveStep(server.ucp_map[a], server'.ucp_map[a],
                                   server'.update_time # server.update_time)
      ]_vars

(* On the channel with the safe delay both peers are ESTABLISHED and       *)
(* unbroken; the client has ticked after the whole delay and a heartbeat   *)
(* interval without a packet, and the HEARTBEAT that has been that long    *)
(* under way is about to reach it.                                         *)
C10_Witness ==
    /\ obs.delay + HEARTBEAT_INTERVAL_MILLIS < UCP_STREAM_BROKEN_MILLIS
    /\ obs.broken = <<>>
    /\ client.running /\ client.ucp.state = "ESTABLISHED"
    /\ Srv # None /\ Srv.state = "ESTABLISHED"
    /\ client.update_time = now
    /\ now - client.ucp.alive_time = obs.delay + HEARTBEAT_INTERVAL_MILLIS
    /\ \E m \in BagToSet(net) :
           /\ m.d.cmd = CMD_HEARTBEAT /\ m.d.dst = ClientAddr
           /\ m.at = now

(* The seqs of the packets of the queue q.                                 *)
Seqs(q) == {q[i].seq : i \in 1..Len(q)}

(* Every packet of new.send_queue has a seq that does not exceed the seq   *)
(* counter (and differs from it when strict), and was in the send_queue or *)
(* in the send_buffer before the step.                                     *)
SendQueueStep(old, new, strict) ==
    \A i \in 1..Len(new.send_queue) :
        /\ SeqDiff(new.send_queue[i].seq, new.seq) <= 0
        /\ strict => new.send_queue[i].seq # new.seq
        /\ new.send_queue[i].seq
               \in Seqs(old.send_queue) \cup Seqs(old.send_buffer)

SendQueueSteps(strict) ==
    /\ SendQueueStep(client.ucp, client'.ucp, strict)
    /\ \A a \in Peers :
           /\ SameStream(server.ucp_map[a], server'.ucp_map[a])
                  => SendQueueStep(server.ucp_map[a], server'.ucp_map[a],
                                   strict)
           /\ (server'.ucp_map[a] # None
                  /\ ~SameStream(server.ucp_map[a], server'.ucp_map[a]))
                  => server'.ucp_map[a].send_queue = <<>>

(* C11: every packet in a stream's send_queue has a seq that is at most    *)
(* the stream's seq counter, which holds the seq assigned last, and was in *)
(* send_buffer before it entered send_queue.                               *)
C11_SendQueueAtMostSeq == [][SendQueueSteps(FALSE)]_vars

(* The statement with a seq strictly less than the seq counter.            *)
C11_SendQueueBelowSeq == [][SendQueueSteps(TRUE)]_vars

(* The client has the two DATA packets of one send in flight, the second   *)
(* with the seq the counter holds.                                         *)
C11_Witness ==
    /\ Len(client.ucp.send_queue) = 2
    /\ client.ucp.send_queue[1].cmd = CMD_DATA
    /\ client.ucp.send_queue[2].cmd = CMD_DATA
    /\ client.ucp.send_queue[2].seq = client.ucp.seq

(* The stream s as the on_update callback of its next tick finds it.       *)
AtOnUpdate(s) ==
    send_pending_packets(timeout_resend(send_ack_list(
        do_heartbeat(Ctx(s))))).s

(* The number of application bytes in the packets of q.                    *)
RECURSIVE Bytes(_)
Bytes(q) == IF q = <<>> THEN 0 ELSE Head(q).n + Bytes(Tail(q))

(* send of len bytes has taken the stream old to new: the send_queue and   *)
(* the packets of send_buffer before the last are as they were; the last,  *)
(* if a DATA packet, has taken what it had room for, and is as it was if   *)
(* not; the packets added are DATA packets of 1 to 1371 bytes with the     *)
(* next seqs; the bytes of send_buffer, in order, have grown by the len    *)
(* bytes submitted.                                                        *)
SendOk(old, new, len) ==
    LET k == Len(old.send_buffer)
        b == old.send_buffer[k]
        took == IF k > 0 /\ b.cmd = CMD_DATA
                THEN Min(remaining_load(b), len) ELSE 0
    IN  /\ new.send_queue = old.send_queue
        /\ Len(new.send_buffer) >= k
        /\ \A i \in 1..(k - 1) : new.send_buffer[i] = old.send_buffer[i]
        /\ k > 0 =>
               /\ b.cmd # CMD_DATA => new.send_buffer[k] = b
               /\ b.cmd = CMD_DATA =>
                      /\ new.send_buffer[k].n = b.n + took
                      /\ [new.send_buffer[k] EXCEPT !.n = b.n, !.lo = b.lo] = b
                      /\ took > 0 =>
                             new.send_buffer[k].lo + b.n = old.nsent
        /\ \A i \in (k + 1)..Len(new.send_buffer) :
               /\ new.send_buffer[i].cmd = CMD_DATA
               /\ new.send_buffer[i].n >= 1
               /\ new.send_buffer[i].n
                      <= BUF_LEN - UCP_PACKET_META_SIZE
               /\ new.send_buffer[i].seq = Add32(old.seq, i - k)
               /\ new.send_buffer[i].lo
                      = old.nsent + took
                          + Bytes(SubSeq(new.send_buffer, k + 1, i - 1))
        /\ new.seq = Add32(old.seq, Len(new.send_buffer) - k)
        /\ Bytes(new.send_buffer) = Bytes(old.send_buffer) + len
        /\ new.nsent = old.nsent + len

(* The sizes of the buffers passed to send.                                *)
SendLens == {1, MaxBytes, BUF_LEN}

(* C12: send appends to the last packet of send_buffer only when it is a   *)
(* DATA packet, puts the rest into new DATA packets of at most 1371 bytes  *)
(* with consecutive fresh seqs at the end of send_buffer, modifies no SYN  *)
(* or SYN_ACK packet and no packet of send_queue, and the DATA payloads in *)
(* seq order grow by exactly the bytes submitted: whenever on_update may   *)
(* call it.                                                                *)
C12_SendAppendsToData ==
    \A s \in Streams :
        check_if_alive(s) =>
            \A len \in SendLens :
                SendOk(AtOnUpdate(s), send(AtOnUpdate(s), len), len)

(* The number of unread payload bytes in the packets at the front of q     *)
(* whose seq precedes una.                                                 *)
RECURSIVE Readable(_, _)
Readable(q, una) ==
    IF q = <<>> \/ SeqDiff(Head(q).seq, una) >= 0 THEN 0
    ELSE payload_remaining(Head(q)) + Readable(Tail(q), una)

(* The numbers of the first k unread payload bytes of q.                   *)
RECURSIVE FirstBytes(_, _)
FirstBytes(q, k) ==
    IF k = 0 \/ q = <<>> THEN {}
    ELSE LET from == Head(q).lo + Head(q).read_pos - UCP_PACKET_META_SIZE
             m == Min(payload_remaining(Head(q)), k)
         IN  (from..(from + m - 1)) \cup FirstBytes(Tail(q), k - m)

(* The numbers of the bytes of the chunks, which are in ascending order.   *)
RECURSIVE ChunkBytes(_, _)
ChunkBytes(chunks, floor) ==
    IF chunks = <<>> THEN {}
    ELSE IF Head(chunks).lo < floor THEN {-1}
    ELSE (Head(chunks).lo..(Head(chunks).lo + Head(chunks).n - 1))
             \cup ChunkBytes(Tail(chunks), Head(chunks).lo + Head(chunks).n)

(* recv into a buffer of buflen bytes has taken the stream s to r.s and    *)
(* returned r.size bytes, r.chunks: the size is the smaller of buflen and  *)
(* the readable bytes; the bytes are the first unread ones in seq order;   *)
(* what is left of recv_queue is its tail from the first packet not fully  *)
(* drained, that packet with its cursor moved and the others untouched;    *)
(* no packet at or beyond una has been read.                               *)
RecvOk(s, r, buflen) ==
    LET size == Min(buflen, Readable(s.recv_queue, s.una))
        gone == Len(s.recv_queue) - Len(r.s.recv_queue)
    IN  /\ r.size = size
        /\ ChunkBytes(r.chunks, 0) = FirstBytes(s.recv_queue, size)
        /\ gone >= 0
        /\ \A i \in 1..gone : SeqDiff(s.recv_queue[i].seq, s.una) < 0
        /\ Readable(SubSeq(s.recv_queue, 1, gone), s.una) <= size
        /\ \A i \in 2..Len(r.s.recv_queue) :
               r.s.recv_queue[i] = s.recv_queue[gone + i]
        /\ r.s.recv_queue # <<>> =>
               /\ [r.s.recv_queue[1] EXCEPT !.read_pos =
                       s.recv_queue[gone + 1].read_pos]
                      = s.recv_queue[gone + 1]
               /\ r.s.recv_queue[1].read_pos
                      = s.recv_queue[gone + 1].read_pos
                          + size - Readable(SubSeq(s.recv_queue, 1, gone),
                                            s.una)
               /\ (size > 0 /\ SeqDiff(r.s.recv_queue[1].seq, s.una) < 0)
                      => payload_remaining(r.s.recv_queue[1]) > 0
        /\ [r.s EXCEPT !.recv_queue = s.recv_queue] = s

(* The sizes of the buffers passed to recv.                                *)
RecvLens == {0, 1, BUF_LEN - UCP_PACKET_META_SIZE - 1, BUF_LEN}

(* C13: recv returns min(buffer.len(), unread payload bytes of the packets *)
(* of recv_queue whose seq precedes una), copies them in seq order, pops   *)
(* every packet it drains, keeps the cursor of one partly drained, reads   *)
(* no packet at or beyond una, and two recv calls in a row yield what one  *)
(* recv with a buffer of both sizes yields.                                *)
C13_RecvContract ==
    \A s \in Streams :
        \A a \in RecvLens :
            LET r == recv_loop(s, a, 0, <<>>)
            IN  /\ RecvOk(s, r, a)
                /\ recv(s, a).size = r.size
                /\ \A b \in RecvLens :
                       /\ recv(recv(s, a).s, b).s = recv(s, a + b).s
                       /\ recv(s, a).size + recv(recv(s, a).s, b).size
                              = recv(s, a + b).size

(* The server's application has read one byte of the first DATA packet,    *)
(* the second is in the recv_queue behind it, and both precede una.        *)
C13_Witness ==
    /\ Srv # None
    /\ Srv.rnext = 1
    /\ Len(Srv.recv_queue) = 2
    /\ Srv.recv_queue[1].read_pos = UCP_PACKET_META_SIZE + 1
    /\ SeqDiff(Srv.recv_queue[2].seq, Srv.una) < 0

(* The (seq, timestamp) pairs carried by the ACK datagrams of out, in the  *)
(* order transmitted.                                                      *)
RECURSIVE WordPairs(_)
WordPairs(words) ==
    IF Len(words) < 2 THEN <<>>
    ELSE <<(<<words[1], words[2]>>)>> \o WordPairs(Tail(Tail(words)))

RECURSIVE AckPairs(_)
AckPairs(out) ==
    IF out = <<>> THEN <<>>
    ELSE (IF Head(out).cmd = CMD_ACK THEN WordPairs(Head(out).words)
          ELSE <<>>) \o AckPairs(Tail(out))

(* The DATA datagrams on the channel that reach the stream s with its      *)
(* session_id.                                                             *)
DataFor(s) ==
    {d \in net : /\ d.dst = s.local_addr
                 /\ d.src = s.remote_addr
                 /\ parse(d)
                 /\ d.cmd = CMD_DATA
                 /\ d.session_id = s.session_id}

(* The arrival of d adds the pair (seq, timestamp) of d at the end of the  *)
(* ack_list of s and transmits nothing.                                    *)
AddsOnePair(s, d) ==
    LET c == process_packet(Ctx(s), parsed(d), d.src)
    IN  /\ c.s.ack_list = Append(s.ack_list, <<d.seq, d.timestamp>>)
        /\ c.out = <<>>

(* A tick of s transmits the pairs of ack_list, each once, in ACK packets  *)
(* with a payload of whole pairs, and empties ack_list.                    *)
TickAcksAll(s) ==
    LET r == update(s, NoCallback)
    IN  /\ r.s.ack_list = <<>>
        /\ AckPairs(r.out) = s.ack_list
        /\ \A i \in 1..Len(r.out) :
               r.out[i].cmd = CMD_ACK =>
                   /\ r.out[i].n = 0
                   /\ Len(r.out[i].words) % 2 = 0
                   /\ r.out[i].size
                          = UCP_PACKET_META_SIZE + 4 * Len(r.out[i].words)

(* C14 as amended: every DATA packet with the stream's session_id arriving *)
(* at an ESTABLISHED stream, a duplicate or one below una included, adds   *)
(* exactly one (seq, timestamp) pair to ack_list; the next tick of an      *)
(* alive stream transmits every pending pair exactly once inside ACK       *)
(* packets and leaves ack_list empty.                                      *)
C14_EstablishedDataAckedOnce ==
    \A s \in Streams :
        /\ s.state = "ESTABLISHED" => \A d \in DataFor(s) : AddsOnePair(s, d)
        /\ check_if_alive(s) => TickAcksAll(s)

(* C14 as stated: every DATA packet arriving at a stream adds one pair to  *)
(* ack_list, whatever the state of the stream.                             *)
C14_EveryDataAckedOnce ==
    \A s \in Streams :
        /\ \A d \in DataFor(s) : AddsOnePair(s, d)
        /\ check_if_alive(s) => TickAcksAll(s)

(* The server has acknowledged two arrivals of the same DATA packet in one *)
(* ACK packet of two pairs, the second arrival below una, and the packet   *)
(* is still on the channel.                                                *)
C14_Witness ==
    /\ Srv # None
    /\ Srv.state = "ESTABLISHED"
    /\ Srv.ack_list = <<>>
    /\ \E a \in net :
           /\ a.src = ServerAddr
           /\ a.cmd = CMD_ACK
           /\ Len(a.words) = 4
           /\ a.words[1] = a.words[3]
           /\ \E d \in DataFor(Srv) :
                  /\ d.seq = a.words[1]
                  /\ SeqDiff(d.seq, Srv.una) < 0

(* The stream has received a DATA packet of this seq before: it is below   *)
(* una or waits in recv_queue.                                             *)
AlreadyReceived(s, seq) ==
    \/ SeqDiff(seq, s.una) < 0
    \/ \E i \in 1..Len(s.recv_queue) : s.recv_queue[i].seq = seq

(* new is old without its leading packets whose seq precedes una.          *)
PoppedBelow(old, new, una) ==
    \E k \in 0..Len(old) :
        /\ new = SubSeq(old, k + 1, Len(old))
        /\ \A i \in 1..k : SeqDiff(old[i].seq, una) < 0
        /\ k < Len(old) => SeqDiff(old[k + 1].seq, una) >= 0

(* recv returns the same bytes from both streams, whatever the buffer.     *)
SameDelivery(s, t) ==
    \A b \in RecvLens :
        /\ recv(s, b).size = recv(t, b).size
        /\ recv_loop(s, b, 0, <<>>).chunks = recv_loop(t, b, 0, <<>>).chunks

(* The stream s after the datagram d has arrived.                          *)
After(s, d) == process_packet(Ctx(s), parsed(d), d.src).s

(* C15 as amended: a DATA packet of a seq the ESTABLISHED stream has       *)
(* received before leaves the deliverable bytes as they are, adds exactly  *)
(* one ack_list pair and transmits nothing; beyond that it only refreshes  *)
(* alive_time to the time of arrival, sets remote_window from its header   *)
(* and pops the send_queue packets below its una; the same datagram        *)
(* arriving twice in a row differs from its arriving once in the           *)
(* additional ack_list pair alone.                                         *)
C15_DuplicateOnlyAcked ==
    \A s \in Streams :
        s.state = "ESTABLISHED" =>
            \A d \in DataFor(s) :
                /\ [After(After(s, d), d) EXCEPT !.ack_list = <<>>]
                       = [After(s, d) EXCEPT !.ack_list = <<>>]
                /\ After(After(s, d), d).ack_list
                       = Append(After(s, d).ack_list, <<d.seq, d.timestamp>>)
                /\ SameDelivery(After(After(s, d), d), After(s, d))
                /\ AlreadyReceived(s, d.seq) =>
                       /\ process_packet(Ctx(s), parsed(d), d.src).out = <<>>
                       /\ After(s, d).ack_list
                              = Append(s.ack_list, <<d.seq, d.timestamp>>)
                       /\ SameDelivery(After(s, d), s)
                       /\ After(s, d).alive_time = now
                       /\ After(s, d).remote_window = d.window
                       /\ PoppedBelow(s.send_queue, After(s, d).send_queue,
                                      d.una)
                       /\ [After(s, d) EXCEPT
                               !.ack_list = s.ack_list,
                               !.alive_time = s.alive_time,
                               !.remote_window = s.remote_window,
                               !.send_queue = s.send_queue] = s

(* C15 as stated: a DATA packet of a seq the ESTABLISHED stream has        *)
(* received before changes nothing of the stream but ack_list, which gains *)
(* one pair, and leaves the deliverable bytes as they are.                 *)
C15_DuplicateChangesAckListOnly ==
    \A s \in Streams :
        s.state = "ESTABLISHED" =>
            \A d \in DataFor(s) :
                AlreadyReceived(s, d.seq) =>
                    /\ After(s, d)
                           = [s EXCEPT !.ack_list =
                                  Append(@, <<d.seq, d.timestamp>>)]
                    /\ SameDelivery(After(s, d), s)

(* The server has received two copies of one DATA packet: the first was   *)
(* acknowledged and read by the application; the second, a retransmission  *)
(* carrying a newer una, arrived later, below una, and is pending in       *)
(* ack_list; the server's own DATA packet is no longer in flight.          *)
C15_Witness ==
    /\ Srv # None
    /\ Srv.state = "ESTABLISHED"
    /\ Len(Srv.ack_list) = 1
    /\ \E a \in net :
           /\ a.src = ServerAddr
           /\ a.cmd = CMD_ACK
           /\ Len(a.words) = 2
           /\ a.words[1] = Srv.ack_list[1][1]
           /\ a.words[2] < Srv.ack_list[1][2]
    /\ Srv.rnext = 1
    /\ Srv.recv_queue = <<>>
    /\ Srv.nsent = 1
    /\ Srv.seq = 2
    /\ Srv.send_queue = <<>>
    /\ Srv.send_buffer = <<>>
    /\ \E d \in DataFor(Srv) : d.seq = Srv.ack_list[1][1] /\ d.una = 3

BothEstablished ==
    /\ client.ucp.state = "ESTABLISHED"
    /\ Srv # None
    /\ Srv.state = "ESTABLISHED"

(* C16: under a fair channel that loses finitely many datagrams, regular   *)
(* ticks and no teardown, the client that called connect and the server    *)
(* stream created by its SYN both eventually reach ESTABLISHED, whichever  *)
(* of the SYN, the SYN_ACK and the handshake ACK are lost.                 *)
C16_HandshakeCompletes == <>BothEstablished

(* Both are ESTABLISHED after a SYN, a SYN_ACK and a handshake ACK have    *)
(* been lost.                                                              *)
C16_Witness ==
    /\ BothEstablished
    /\ obs.lostcmds = {CMD_SYN, CMD_SYN_ACK, CMD_ACK}

(* The server's application has been returned, in order, every byte the    *)
(* client's application passed to send.                                    *)
AllDelivered ==
    /\ client.ucp.nsent = MaxBytes
    /\ Srv # None
    /\ Srv.rnext = MaxBytes
    /\ Srv.rok

(* C17: under a fair channel that loses finitely many datagrams, regular   *)
(* ticks, a receiver that calls recv in every tick and no teardown, every  *)
(* byte passed to send is eventually returned by the peer's recv.          *)
C17_EveryByteDelivered == <>AllDelivered

(* Every byte has been delivered although the channel lost MaxLoss         *)
(* datagrams, all of them DATA: one DATA packet was lost more than once.   *)
C17_Witness ==
    /\ AllDelivered
    /\ obs.lost = MaxLoss
    /\ obs.lostcmds = {CMD_DATA}

(* The DATA packets the client has made, by seq and bytes: those waiting   *)
(* in send_buffer, those in flight and those transmitted.                  *)
SentData ==
    {[seq |-> p.seq, lo |-> p.lo, n |-> p.n] :
         p \in {client.ucp.send_buffer[i] :
                    i \in 1..Len(client.ucp.send_buffer)}
                 \cup {client.ucp.send_queue[i] :
                           i \in 1..Len(client.ucp.send_queue)}
                 \cup {d \in net : d.src = ClientAddr /\ d.cmd = CMD_DATA}}

(* The unread bytes of q that follow one another from byte from on.        *)
RECURSIVE Contiguous(_, _)
Contiguous(q, from) ==
    IF q = <<>> \/ Head(q).lo + Head(q).read_pos - UCP_PACKET_META_SIZE # from
    THEN 0
    ELSE payload_remaining(Head(q))
             + Contiguous(Tail(q), from + payload_remaining(Head(q)))

(* The first byte the server has not received in order.                    *)
Frontier == Srv.rnext + Contiguous(Srv.recv_queue, Srv.rnext)

(* The byte up to which a packet carrying this una acknowledges.           *)
AckedBelow(una) ==
    IF \E s \in SentData : s.seq = una
    THEN (CHOOSE s \in SentData : s.seq = una).lo
    ELSE IF una = Add32(client.ucp.seq, 1) THEN client.ucp.nsent
    ELSE 0

(* The client's DATA packets not yet acknowledged, oldest first.           *)
Unacked == client.ucp.send_queue \o client.ucp.send_buffer

(* process_data across the wrap: recv_queue is in the order of the bytes,  *)
(* holds no packet twice and none already delivered, and una is the seq of *)
(* the packet that starts at the first byte missing.                       *)
WrapReceiveOrder ==
    /\ \A i, j \in 1..Len(Srv.recv_queue) :
           i < j => Srv.recv_queue[i].lo + Srv.recv_queue[i].n
                        <= Srv.recv_queue[j].lo
    /\ \A i \in 1..Len(Srv.recv_queue) :
           Srv.recv_queue[i].lo + Srv.recv_queue[i].n > Srv.rnext
    /\ \A s \in SentData :
           /\ s.lo = Frontier => s.seq = Srv.una
           /\ s.lo < Frontier => s.seq # Srv.una
    /\ Frontier = client.ucp.nsent /\ client.ucp.send_buffer = <<>>
           => Srv.una = Add32(client.ucp.seq, 1)

(* recv across the wrap: it returns the bytes received in order and stops  *)
(* at the first gap; they are the bytes the client sent, in order.         *)
WrapDelivery ==
    /\ Srv.rok
    /\ Srv.rnext <= client.ucp.nsent
    /\ \A b \in RecvLens :
           recv(Srv, b).size
               = Min(b, Contiguous(Srv.recv_queue, Srv.rnext))

(* process_una and process_ack across the wrap: a packet that has left     *)
(* send_queue has been received, and none stays that the packet just       *)
(* received acknowledges, by its una or by a pair of its payload.          *)
WrapInFlight ==
    /\ \A s \in SentData :
           \/ \E i \in 1..Len(Unacked) : Unacked[i].lo = s.lo
           \/ s.lo < Frontier
           \/ \E i \in 1..Len(Srv.recv_queue) : Srv.recv_queue[i].lo = s.lo
    /\ (obs.last # None /\ obs.last.dst = ClientAddr /\ parse(obs.last)
           /\ obs.last.session_id = client.ucp.session_id)
           => \A i \in 1..Len(client.ucp.send_queue) :
                  /\ client.ucp.send_queue[i].lo >= AckedBelow(obs.last.una)
                  /\ obs.last.cmd = CMD_ACK
                         => \A k \in 1..Len(obs.last.words) :
                                k % 2 = 1 => obs.last.words[k]
                                    # client.ucp.send_queue[i].seq

(* send_pending_packets across the wrap: the gap it computes between two   *)
(* packets is the number of packets from one to the other, and a packet    *)
(* within the window of the oldest in flight is not held back.             *)
WrapWindow ==
    /\ \A i, j \in 1..Len(Unacked) :
           i <= j => Sub32(Unacked[j].seq, Unacked[i].seq)
                         * (BUF_LEN - UCP_PACKET_META_SIZE)
                         = Unacked[j].lo - Unacked[i].lo
    /\ (/\ client.ucp.send_buffer # <<>>
        /\ Len(client.ucp.send_queue) < client.ucp.remote_window
        /\ Len(Unacked) <= client.ucp.remote_window)
           => may_promote(client.ucp)

(* C18: when the sequence numbers wrap around the modulus, process_data,   *)
(* recv, process_una and send_pending_packets still order the packets      *)
(* correctly: delivery stays in order across the wrap and no in-flight     *)
(* packet is wrongly discarded or wrongly retained.                        *)
C18_WrapOrdering ==
    /\ WrapReceiveOrder
    /\ WrapDelivery
    /\ WrapInFlight
    /\ WrapWindow

(* The packet of seq 0 arrived first and waited in recv_queue for the one  *)
(* of the last seq below the modulus; una has advanced over both, the      *)
(* application has read all their bytes, and the client, having been       *)
(* acknowledged, has nothing in flight.                                    *)
C18_Witness ==
    /\ Srv.una = 1
    /\ Srv.rnext = MaxBytes
    /\ Srv.recv_queue = <<>>
    /\ client.ucp.seq = 0
    /\ client.ucp.nsent = MaxBytes
    /\ client.ucp.send_queue = <<>>
    /\ client.ucp.send_buffer = <<>>
    /\ \E a \in net :
           /\ a.src = ServerAddr
           /\ a.cmd = CMD_ACK
           /\ Len(a.words) = 4
           /\ a.words[1] = 0
           /\ a.words[3] = Sub32(0, 1)

Connects == {"connect", "connect_domain_name"}

(* The calls on write_port so far begin a sequence of the form: at most    *)
(* one connect or connect_domain_name, then writes, then shutdown_write    *)
(* and drop, or close.                                                     *)
WriteSideOrdered(calls) ==
    \A i \in 1..Len(calls) :
        /\ calls[i] \in Connects => i = 1
        /\ calls[i] = "write" => calls[1] \in Connects
        /\ calls[i] = "shutdown_write" =>
               /\ i >= Len(calls) - 1
               /\ i < Len(calls) => calls[i + 1] = "drop"
        /\ calls[i] = "drop" =>
               i = Len(calls) /\ i > 1 /\ calls[i - 1] = "shutdown_write"
        /\ calls[i] = "close" => i = Len(calls)

(* C19: on the write side of a port the adapter makes at most one connect  *)
(* or connect_domain_name call, before every write; then writes; then      *)
(* shutdown_write followed by drop, or close; and after shutdown_write or  *)
(* close no write, shutdown_write or connect; a task that has returned has *)
(* ended the sequence.                                                     *)
C19_WriteSideSequence ==
    port.pc # "absent" =>
        /\ WriteSideOrdered(port.calls)
        /\ port.pc = "done" =>
               /\ port.calls # <<>>
               /\ port.calls[Len(port.calls)] \in {"drop", "close"}

(* The task has returned after one connect, MaxWrites writes and           *)
(* shutdown_write followed by drop.                                        *)
C19_Witness ==
    /\ port.pc = "done"
    /\ Len(port.calls) = MaxWrites + 3
    /\ port.calls[1] = "connect"
    /\ port.calls[MaxWrites + 1] = "write"
    /\ port.calls[MaxWrites + 2] = "shutdown_write"
    /\ port.calls[MaxWrites + 3] = "drop"

(* C20: the two copies start only if the first message read from the port  *)
(* is ConnectOk and the SOCKS5 success reply was written; after any other  *)
(* first message the adapter replies SOCKS5 unreachable, makes no write on *)
(* the port, shuts the TCP connection down in both directions and closes   *)
(* the port.                                                               *)
C20_CopiesOnlyAfterConnectOk ==
    port.pc # "absent" =>
        /\ port.rd # "idle" \/ port.wr # "idle" =>
               /\ port.first = "ConnectOk"
               /\ port.replies = <<[kind |-> "connected", written |-> TRUE]>>
        /\ (port.first \in OtherMsgs /\ port.pc # "reply") =>
               /\ port.pc = "done"
               /\ port.rd = "idle" /\ port.wr = "idle"
               /\ Len(port.replies) = 1
               /\ port.replies[1].kind = "unreached"
               /\ Count(port.calls, "write") = 0
               /\ port.shut_rd /\ port.shut_wr
               /\ Len(port.calls) = 2
               /\ port.calls[1] \in Connects
               /\ port.calls[2] = "close"

(* The first message was ConnectFailed: the unreachable reply was written, *)
(* the connection is shut down and the port closed.                        *)
C20_Witness ==
    /\ port.pc = "done"
    /\ port.first = "ConnectFailed"
    /\ port.replies = <<[kind |-> "unreached", written |-> TRUE]>>
    /\ port.calls = <<"connect_domain_name", "close">>
    /\ port.shut_rd /\ port.shut_wr

(* The pairs an ACK may carry to the stream s: the seq of an in-flight     *)
(* packet or one not in flight, with the timestamp of an in-flight packet, *)
(* the stream's clock, or zero.                                            *)
PairsFor(s) ==
    (Seqs(s.send_queue) \cup {Add32(s.seq, 1)})
        \X ({s.send_queue[i].timestamp : i \in 1..Len(s.send_queue)}
                \cup {timestamp(s), 0})

(* The in-flight packet p as a pair with timestamp ts leaves it when the   *)
(* pair's packet is behind it in send_queue.                               *)
Skipped(p, ts) ==
    IF p.timestamp <= ts THEN [p EXCEPT !.skip_times = p.skip_times + 1]
    ELSE p

(* process_an_ack of the pair (seq, ts) on the stream s: the one packet    *)
(* with that seq is removed, those before it are skipped when not younger  *)
(* than ts, those after it are as they were; with no such packet none is   *)
(* removed; send_buffer and recv_queue are as they were.                   *)
AnAckOk(s, seq, ts) ==
    LET q == s.send_queue
        r == process_an_ack(s, seq, ts)
        q2 == r.s.send_queue
        hits == {i \in 1..Len(q) : q[i].seq = seq}
    IN  /\ Cardinality(hits) <= 1
        /\ r.found = (hits # {})
        /\ hits = {} =>
               /\ Len(q2) = Len(q)
               /\ \A i \in 1..Len(q) : q2[i] = Skipped(q[i], ts)
        /\ \A k \in hits :
               /\ Len(q2) = Len(q) - 1
               /\ \A i \in 1..(k - 1) : q2[i] = Skipped(q[i], ts)
               /\ \A i \in (k + 1)..Len(q) : q2[i - 1] = q[i]
        /\ seq \notin Seqs(q2)
        /\ r.s.send_buffer = s.send_buffer
        /\ r.s.recv_queue = s.recv_queue

(* The ACK packet of the stream's peer carrying the u32 values words.      *)
AckOf(s, words) ==
    [pack([new_noseq_packet(s, CMD_ACK) EXCEPT !.words = words])
        EXCEPT !.read_pos = UCP_PACKET_META_SIZE]

Carrying(out, p) ==
    {i \in 1..Len(out) : out[i].cmd = p.cmd /\ out[i].seq = p.seq}

(* The tick of the alive stream s: each packet that was in send_queue is   *)
(* retransmitted exactly when it is as old as rto or has been skipped      *)
(* SKIP_RESEND_TIMES times; retransmitted, it goes out once, with          *)
(* skip_times 0, xmit one more and the timestamp of the tick, and is       *)
(* otherwise the packet it was, in the place it was; not retransmitted, it *)
(* is untouched and does not go out.                                       *)
ResendOk(s) ==
    LET r == update(s, NoCallback)
        ms == now - s.initial_time
    IN  /\ Len(r.s.send_queue) >= Len(s.send_queue)
        /\ \A i \in 1..Len(s.send_queue) :
               LET p == s.send_queue[i]
                   p2 == r.s.send_queue[i]
                   due == \/ ms - p.timestamp >= s.rto
                          \/ p.skip_times >= 2
               IN  /\ p.timestamp <= ms
                   /\ due =>
                          /\ p2.skip_times = 0
                          /\ p2.xmit = p.xmit + 1
                          /\ p2.timestamp = ms
                          /\ [p2 EXCEPT !.skip_times = p.skip_times,
                                        !.xmit = p.xmit,
                                        !.timestamp = p.timestamp,
                                        !.window = p.window,
                                        !.una = p.una] = p
                          /\ Cardinality(Carrying(r.out, p)) = 1
                          /\ \A j \in Carrying(r.out, p) :
                                 /\ parse(r.out[j])
                                 /\ [parsed(r.out[j]) EXCEPT
                                        !.read_pos = p2.read_pos] = p2
                   /\ ~due => p2 = p /\ Carrying(r.out, p) = {}

(* C22: in a tick of an alive stream a packet of send_queue is             *)
(* retransmitted if and only if now - packet.timestamp >= rto or its       *)
(* skip_times >= 2; it then has skip_times 0, xmit incremented by one and  *)
(* timestamp now, and keeps its seq, payload and position; so a packet     *)
(* skipped by two later ACK pairs is retransmitted by the next tick even   *)
(* when younger than rto.                                                  *)
C22_RetransmitRule ==
    \A s \in Streams : check_if_alive(s) => ResendOk(s)

(* The client's tick has just retransmitted the first DATA packet, which   *)
(* it had sent for the first time no more than ResendStep ms earlier (the  *)
(* first tick took the bytes, the second sent them), with rto above        *)
(* ResendStep: two ACK pairs of the second DATA packet had skipped it.     *)
C22_Witness ==
    /\ now = 3 * ResendStep
    /\ client.update_time = now
    /\ client.ucp.rto > ResendStep
    /\ Len(client.ucp.send_queue) = 1
    /\ client.ucp.send_queue[1].seq = 2
    /\ client.ucp.send_queue[1].xmit = 1
    /\ client.ucp.send_queue[1].skip_times = 0
    /\ client.ucp.send_queue[1].timestamp = timestamp(client.ucp)

(* send_pending_packets on the stream s whose remote_window is w: the k    *)
(* packets promoted are the first k of send_buffer, appended in order to   *)
(* send_queue with window, una and timestamp set, and sent in that order;  *)
(* each was promoted with fewer than w packets in flight and less than w   *)
(* past the oldest in flight; and promotion stopped at the first packet    *)
(* for which one of the two fails, or at the end of send_buffer.           *)
PromoteOk(s, w) ==
    LET s0 == [s EXCEPT !.remote_window = w]
        c == send_pending_packets(Ctx(s0))
        n == Len(s.send_queue)
        k == Len(c.s.send_queue) - n
        q2 == c.s.send_queue
        Gap(p) == Sub32(p.seq, q2[1].seq)
    IN  /\ k >= 0 /\ k <= Len(s.send_buffer)
        /\ SubSeq(q2, 1, n) = s.send_queue
        /\ c.s.send_buffer = SubSeq(s.send_buffer, k + 1, Len(s.send_buffer))
        /\ Len(c.out) = k
        /\ \A j \in 1..k :
               /\ q2[n + j] = pack([s.send_buffer[j] EXCEPT
                                       !.window = s.local_window,
                                       !.una = s.una,
                                       !.timestamp = timestamp(s)])
               /\ parsed(c.out[j]) = [q2[n + j] EXCEPT
                                         !.read_pos = UCP_PACKET_META_SIZE]
               /\ n + j - 1 < w
               /\ Gap(q2[n + j]) < w
        /\ \/ k = Len(s.send_buffer)
           \/ n + k >= w
           \/ n + k > 0 /\ Gap(s.send_buffer[k + 1]) >= w
        /\ [c.s EXCEPT !.send_queue = s.send_queue,
                       !.send_buffer = s.send_buffer] = s0

(* The windows a peer may advertise.                                       *)
Windows == {0, 1, NarrowWindow, NarrowWindow + 1, DEFAULT_WINDOW}

(* No more than remote_window packets in flight, each less than            *)
(* remote_window past the oldest.                                          *)
InWindow(s) ==
    /\ Len(s.send_queue) <= s.remote_window
    /\ \A i \in 1..Len(s.send_queue) :
           Sub32(s.send_queue[i].seq, s.send_queue[1].seq) < s.remote_window

(* C23: send_pending_packets moves packets from the front of send_buffer   *)
(* to the back of send_queue in FIFO order, promotes a packet only while   *)
(* |send_queue| < remote_window and next-to-send seq - oldest in-flight    *)
(* seq < remote_window, and stops only when send_buffer is empty or one of *)
(* the two fails; so with a constant window W every reachable state has    *)
(* |send_queue| <= W and every in-flight seq within W of the oldest.       *)
C23_WindowedPromotion ==
    \A s \in Streams :
        /\ \A w \in Windows : PromoteOk(s, w)
        /\ InWindow(s)

(* The client's last tick has left the third DATA packet in send_buffer    *)
(* with one packet in flight, fewer than the window: the packet in flight  *)
(* is the first, and the third would be NarrowWindow past it.  The ACK of  *)
(* the second had arrived one clock step before that tick, as the rto it   *)
(* left shows.                                                             *)
C23_Witness ==
    /\ now = MaxNarrowSteps * Step
    /\ client.update_time = now
    /\ client.ucp.rto < DEFAULT_RTO
    /\ client.ucp.remote_window = NarrowWindow
    /\ Len(client.ucp.send_queue) = 1
    /\ Len(client.ucp.send_queue) < NarrowWindow
    /\ Len(client.ucp.send_buffer) = 1
    /\ client.ucp.send_buffer[1].seq
           = client.ucp.send_queue[1].seq + NarrowWindow

(* What on_update may do and return.                                       *)
TickCallbacks ==
    {NoCallback, [op |-> "send", n |-> 1, ret |-> TRUE],
     [op |-> "recv", n |-> BUF_LEN, ret |-> FALSE]}

(* The u32 values of an ACK carrying the pairs.                            *)
PairWords(pairs) ==
    [i \in 1..(2 * Len(pairs)) |->
        pairs[(i + 1) \div 2][IF i % 2 = 1 THEN 1 ELSE 2]]

(* The tick of the stream s with the callback cb.  Alive: what it sends    *)
(* is, in this order, a HEARTBEAT if one is due, an ACK with the pairs of  *)
(* ack_list if there are any, the packets of send_queue due for            *)
(* retransmission, and the packets promoted from the front of              *)
(* send_buffer, sent for the first time; the callback has then acted once  *)
(* on the stream so left (its bytes are behind the packets not promoted    *)
(* and were not sent), and its result is returned.  Broken: nothing is     *)
(* sent, the stream is as it was, on_broken is invoked and the result is   *)
(* false.                                                                  *)
TickOk(s, cb) ==
    LET r == update(s, cb)
        ms == timestamp(s)
        IsDue(p) == Sub32(ms, p.timestamp) >= s.rto \/ p.skip_times >= 2
        due == SelectSeq(s.send_queue, IsDue)
        a == IF now - s.heartbeat >= 2500 THEN 1 ELSE 0
        b == IF s.ack_list # <<>> THEN 1 ELSE 0
        nd == Len(due)
        k == Len(r.out) - a - b - nd
        rest == SubSeq(s.send_buffer, k + 1, Len(s.send_buffer))
    IN  IF now - s.alive_time < 20000
        THEN /\ k >= 0 /\ k <= Len(s.send_buffer)
             /\ a = 1 => r.out[1].cmd = CMD_HEARTBEAT /\ r.s.heartbeat = now
             /\ a = 0 => r.s.heartbeat = s.heartbeat
             /\ b = 1 => /\ r.out[a + 1].cmd = CMD_ACK
                         /\ r.out[a + 1].words = PairWords(s.ack_list)
             /\ r.s.ack_list = <<>>
             /\ \A j \in 1..nd :
                    /\ r.out[a + b + j].cmd = due[j].cmd
                    /\ r.out[a + b + j].seq = due[j].seq
                    /\ r.out[a + b + j].xmit = due[j].xmit + 1
             /\ \A j \in 1..k :
                    /\ r.out[a + b + nd + j].cmd = s.send_buffer[j].cmd
                    /\ r.out[a + b + nd + j].seq = s.send_buffer[j].seq
                    /\ r.out[a + b + nd + j].xmit = 0
             /\ \A j \in 1..Len(r.out) :
                    /\ r.out[j].timestamp = ms
                    /\ r.out[j].una = s.una
             /\ Len(r.s.send_queue) = Len(s.send_queue) + k
             /\ cb.op = "send" =>
                    /\ r.s.nsent = s.nsent + cb.n
                    /\ Bytes(r.s.send_buffer) = Bytes(rest) + cb.n
                    /\ r.s.rnext = s.rnext
             /\ cb.op = "recv" =>
                    /\ r.s.rnext
                           = s.rnext + Min(cb.n, Readable(s.recv_queue, s.una))
                    /\ r.s.send_buffer = rest
                    /\ r.s.nsent = s.nsent
             /\ cb.op = "none" =>
                    /\ r.s.send_buffer = rest
                    /\ r.s.recv_queue = s.recv_queue
                    /\ r.s.nsent = s.nsent /\ r.s.rnext = s.rnext
             /\ r.alive = cb.ret
             /\ ~r.broken
        ELSE /\ r.out = <<>>
             /\ r.s = s
             /\ ~r.alive
             /\ r.broken

(* C24: a tick of a stream with now - alive_time < 20000 ms performs, in   *)
(* this order, heartbeat, ACK-list flush, retransmit pass and promotion,   *)
(* then invokes on_update exactly once and returns its result; a tick with *)
(* now - alive_time >= 20000 ms invokes on_broken, returns false and       *)
(* performs none of them.                                                  *)
C24_TickOrder ==
    \A s \in Streams : \A cb \in TickCallbacks : TickOk(s, cb)

(* The client's datagrams with this cmd, seq and xmit stamped by the tick  *)
(* at the present instant.                                                 *)
SentNow(cmd, seq, xmit) ==
    \E d \in net :
        /\ d.src = ClientAddr /\ d.cmd = cmd /\ d.seq = seq /\ d.xmit = xmit
        /\ d.timestamp = timestamp(client.ucp)

(* The client's tick at this instant has sent a HEARTBEAT, the ACK of the  *)
(* server's byte, its first DATA packet again and its second DATA packet   *)
(* for the first time; the server's stream, silent for 20 s, was broken by *)
(* its tick.                                                               *)
C24_Witness ==
    /\ client.update_time = now
    /\ client.running
    /\ SentNow(CMD_HEARTBEAT, 0, 0)
    /\ SentNow(CMD_ACK, 0, 0)
    /\ SentNow(CMD_DATA, 2, 1)
    /\ SentNow(CMD_DATA, 3, 0)
    /\ client.ucp.ack_list = <<>>
    /\ Len(client.ucp.send_queue) = 2
    /\ obs.broken = <<1>>
    /\ Srv = None

(* The remote addresses that have a stream in the server's table.          *)
Known(sv) == {a \in Peers : sv.ucp_map[a] # None}

(* recv_from of the server has returned the datagram d.  A stream is       *)
(* created exactly when d parses, is a SYN and its source has no stream:   *)
(* it is then the stream of that source, fresh, handed to on_new_ucp once  *)
(* in state NONE and ACCEPTING after the SYN; the other streams are as     *)
(* they were.  Otherwise the table has the streams it had.  A packet that  *)
(* parses, is not a SYN and comes from a source without stream changes     *)
(* nothing and has nothing sent.                                           *)
ServerReceiveOk(d) ==
    LET fresh == parse(d) /\ d.cmd = CMD_SYN /\ server.ucp_map[d.src] = None
    IN  /\ (obs'.streams = obs.streams + 1) = fresh
        /\ obs'.streams \in {obs.streams, obs.streams + 1}
        /\ fresh =>
               /\ Known(server') = Known(server) \cup {d.src}
               /\ server'.ucp_map[d.src].id = obs'.streams
               /\ server'.ucp_map[d.src].remote_addr = d.src
               /\ server'.ucp_map[d.src].hooked = <<"NONE">>
               /\ server'.ucp_map[d.src].state = "ACCEPTING"
               /\ server'.ucp_map[d.src].session_id = d.session_id
               /\ \A a \in Peers \ {d.src} :
                      server'.ucp_map[a] = server.ucp_map[a]
        /\ ~fresh =>
               /\ Known(server') = Known(server)
               /\ \A a \in Known(server) :
                      server'.ucp_map[a].id = server.ucp_map[a].id
        /\ (parse(d) /\ d.cmd # CMD_SYN /\ server.ucp_map[d.src] = None)
               => UNCHANGED <<client, server, net>>

(* The table holds, under each address, a stream of that address, created  *)
(* by one SYN each (the ids are distinct and no more than the streams      *)
(* created) and handed to on_new_ucp once, before the SYN.                 *)
TableOk(sv, streams) ==
    /\ \A a \in Known(sv) :
           /\ sv.ucp_map[a].remote_addr = a
           /\ sv.ucp_map[a].id \in 1..streams
           /\ sv.ucp_map[a].hooked = <<"NONE">>
           /\ sv.ucp_map[a].state # "NONE"
    /\ \A a, b \in Known(sv) :
           a # b => sv.ucp_map[a].id # sv.ucp_map[b].id

(* C25: the server creates a stream only on a valid SYN from a remote      *)
(* address that has no stream in its table; the table never holds more     *)
(* than one stream per remote address; on_new_ucp is invoked exactly once  *)
(* per created stream, before the SYN is delivered to it; a valid non-SYN  *)
(* packet from an address with no stream creates no stream and triggers no *)
(* reply.                                                                  *)
C25_StreamCreation ==
    [][/\ TableOk(server', obs'.streams)
       /\ IF obs'.delivered # obs.delivered /\ obs'.last.dst = ServerAddr
          THEN ServerReceiveOk(obs'.last)
          ELSE /\ obs'.streams = obs.streams
               /\ Known(server') \subseteq Known(server)]_vars

(* The server, holding the one stream it created on the client's SYN, has  *)
(* just been handed a valid DATA packet from the other address, which has  *)
(* no stream.                                                              *)
C25_Witness ==
    /\ obs.streams = 1
    /\ Known(server) = {ClientAddr}
    /\ Srv.id = 1
    /\ Srv.hooked = <<"NONE">>
    /\ obs.last # None
    /\ obs.last.dst = ServerAddr
    /\ obs.last.src = OtherAddr
    /\ parse(obs.last)
    /\ obs.last.cmd = CMD_DATA

(* The (seq, timestamp) pairs that the stream s hands to process_an_ack    *)
(* when it is given the datagram d.                                        *)
PairsProcessed(s, d) ==
    LET words == d.size - UCP_PACKET_META_SIZE
        takes ==
            /\ d.src = s.remote_addr
            /\ d.session_id = s.session_id
            /\ \/ s.state = "ACCEPTING" /\ d.cmd = CMD_ACK /\ words = 8
               \/ s.state = "CONNECTING" /\ d.cmd = CMD_SYN_ACK /\ words = 8
               \/ s.state = "ESTABLISHED" /\ d.cmd = CMD_ACK /\ words % 8 = 0
    IN  IF takes THEN WordPairs(d.words) ELSE <<>>

(* rto after the pairs, at ms milliseconds of the stream's clock, each     *)
(* pair making it (rto + rtt) / 2 with rtt = ms - timestamp; -1 when a     *)
(* subtraction or an addition leaves the range of u32.                     *)
RECURSIVE RtoAfter(_, _, _)
RtoAfter(rto, ms, pairs) ==
    IF pairs = <<>> THEN rto
    ELSE LET rtt == ms - pairs[1][2]
         IN  IF rto < 0 \/ rtt < 0 \/ rto + rtt >= U32 THEN -1
             ELSE RtoAfter((rto + rtt) \div 2, ms, Tail(pairs))

(* C26: rto starts at 100; every ACK pair (seq, timestamp) processed makes *)
(* it (old rto + rtt) / 2, integer division, with rtt = the stream's       *)
(* millisecond timestamp - pair.timestamp, which is not negative; the      *)
(* subtraction and the addition stay within the range of u32 for every     *)
(* ACK that can reach the stream, duplicates, replays and reorderings      *)
(* included; and rto changes at no other time.                             *)
C26_RtoUpdate ==
    /\ [](/\ obs.delivered = 0 => client.ucp.rto = 100
          /\ \A s \in Streams :
                 /\ \A d \in net :
                        (d.dst = s.local_addr /\ parse(d)) =>
                            process_packet(Ctx(s), parsed(d), d.src).s.rto
                                = RtoAfter(s.rto, now - s.initial_time,
                                           PairsProcessed(s, d))
                 /\ \A cb \in TickCallbacks : update(s, cb).s.rto = s.rto)
    /\ [][\A a \in Peers :
              (/\ server'.ucp_map[a] # None
               /\ ~SameStream(server.ucp_map[a], server'.ucp_map[a]))
                  => server'.ucp_map[a].rto = 100]_vars

(* The packets of the send_queue of s whose seq is not in that of t.       *)
Gone(s, t) ==
    {s.send_queue[i] : i \in {j \in 1..Len(s.send_queue) :
                                  s.send_queue[j].seq \notin Seqs(t.send_queue)}}

(* The datagram d removes the in-flight packet p of s by a pair it hands   *)
(* to process_an_ack, or by its una in process_state_established.          *)
Acknowledges(s, d, p) ==
    \/ \E k \in 1..Len(PairsProcessed(s, d)) :
           PairsProcessed(s, d)[k][1] = p.seq
    \/ /\ s.state = "ESTABLISHED"
       /\ d.src = s.remote_addr
       /\ d.session_id = s.session_id
       /\ SeqDiff(d.una, p.seq) > 0

(* The peer of s has taken in the packet p.                                *)
PeerHas(s, p) ==
    \E g \in obs.got :
        /\ g.src = s.local_addr /\ g.dst = s.remote_addr
        /\ g.cmd = p.cmd /\ g.seq = p.seq
        /\ g.words = p.words /\ g.lo = p.lo /\ g.n = p.n

(* A tick leaves the packets in flight where they are in send_queue, with  *)
(* their seq and payload.  The value of send_to is dropped by the code, so *)
(* a send that fails is a datagram that recv_from never returns.           *)
TickKeeps(s, cb) ==
    LET q == update(s, cb).s.send_queue
    IN  /\ Len(q) >= Len(s.send_queue)
        /\ \A i \in 1..Len(s.send_queue) :
               /\ q[i].seq = s.send_queue[i].seq
               /\ q[i].cmd = s.send_queue[i].cmd
               /\ q[i].words = s.send_queue[i].words
               /\ q[i].lo = s.send_queue[i].lo
               /\ q[i].n = s.send_queue[i].n

(* The packets that leave the send_queue of s in a step to t: none unless  *)
(* recv_from returned a datagram, and those that carry a SYN, a SYN_ACK or *)
(* DATA have been taken in by the peer.                                    *)
LeaveOk(s, t) ==
    /\ obs'.delivered = obs.delivered => Gone(s, t) = {}
    /\ \A p \in Gone(s, t) :
           p.cmd \in {CMD_SYN, CMD_SYN_ACK, CMD_DATA} => PeerHas(s, p)

(* C27: a packet leaves a stream's send_queue only through an ACK pair     *)
(* naming its seq or through a cumulative una greater than its seq; when a *)
(* SYN, SYN_ACK or DATA packet has left the sender's send_queue, the peer  *)
(* has already received that packet: it was processed for the handshake,   *)
(* or is in or has passed through the peer's recv_queue; no packet in      *)
(* flight is discarded by a tick, a send failure or a retransmission.      *)
C27_AckedMeansReceived ==
    /\ [](\A s \in Streams :
              /\ \A d \in net :
                     (d.dst = s.local_addr /\ parse(d)) =>
                         \A p \in Gone(s, process_packet(Ctx(s), parsed(d),
                                                         d.src).s) :
                             Acknowledges(s, d, p)
              /\ \A cb \in TickCallbacks : TickKeeps(s, cb))
    /\ [][/\ LeaveOk(client.ucp, client'.ucp)
          /\ \A a \in Peers :
                 SameStream(server.ucp_map[a], server'.ucp_map[a])
                     => LeaveOk(server.ucp_map[a], server'.ucp_map[a])]_vars

====
